---- MODULE Spec2Model ----
(***************************************************************************)
(* FreePick availability engine: the getAvailableSlots handler of the      *)
(* self-contained server (src/unnamed/part_008) and its twin               *)
(* calculateAvailableSlots (src/unnamed/part_003).                         *)
(*                                                                         *)
(* Instants are whole minutes since 1970-01-01T00:00Z (the code works in   *)
(* milliseconds and only ever adds multiples of 60 * 1000 to instants that *)
(* the inputs of this model place on minute boundaries).  Calendar dates   *)
(* are triples <<year, month, day>> with month 1-based, as in the          *)
(* "YYYY-MM-DD" strings of the request and of all-day events; the loop     *)
(* variables currentMonth etc. are 0-based as in the code.                 *)
(***************************************************************************)
EXTENDS Integers, Sequences, FiniteSets, TLC

VARIABLES
    input,            \* the validated request (zod object of getAvailableSlots)
    allEvents,        \* events fetched from the selected calendars
    pc,               \* position of the handler ("loop", "sweep", "done", ...)
    currentYear,      \* day-loop cursor (currentMonth is 0-based)
    currentMonth,
    currentDay,
    processedDates,   \* dates the loop visited, in order
    dayEvents,        \* events of the current day still to be swept
    currentSlotStart, \* sweep cursor of the current day
    availableSlots,   \* slots emitted so far
    tokens,           \* whether the request's cookie holds Google tokens
    calendarFeed,     \* what events.list answers for each calendar id
    listCalls,        \* calendar ids events.list has been called with so far
    pendingCalendars, \* calendar ids the fetch loop has still to ask
    formattedText,    \* the text built from the slots (a sequence of lines)
    result,           \* what the procedure returned or threw
    merged,           \* mergeConsecutiveSlots: the output list
    currentSlot,      \* mergeConsecutiveSlots: the slot being extended
    mergeIndex,       \* mergeConsecutiveSlots: the loop index i (0-based)
    serverOffset,     \* the server's local time-zone offset (minutes east of UTC)
    timeMinUTC,       \* timeMin passed to events.list
    timeMaxUTC,       \* timeMax passed to events.list (the minute it lies in)
    oauthCredentials, \* credentials set on the module-level oauth2Client (googleCalendar module)
    handlers,         \* the concurrent requests of the googleCalendar router: position and locals
    apiCalls,         \* the Google API calls made so far, with the credentials each one used
    googleTokens,     \* rows of the googleTokens table, in primary-key order
    nextId,           \* the next AUTO_INCREMENT value of googleTokens.id
    lastUpserted,     \* per userId, the accessToken of the latest upsert (none after a delete)
    selected,         \* the last answer of getGoogleTokenByUserId
    cookieJar,        \* the browser's google_calendar_token cookie
    inFlight,         \* requests of the browser the server has not answered yet
    lastResponse,     \* the response the browser received last
    sessionEra        \* the last of disconnect / callback that changed the cookie

\* The state outside the day loop: fetch, formatting, result, merge pass.
restVars == <<tokens, calendarFeed, listCalls, pendingCalendars, formattedText,
              result, merged, currentSlot, mergeIndex,
              serverOffset, timeMinUTC, timeMaxUTC,
              oauthCredentials, handlers, apiCalls,
              googleTokens, nextId, lastUpserted, selected,
              cookieJar, inFlight, lastResponse, sessionEra>>

\* The state of one getAvailableSlots call and of the merge pass.
procedureVars == <<input, allEvents, pc, currentYear, currentMonth, currentDay,
                   processedDates, dayEvents, currentSlotStart, availableSlots,
                   tokens, calendarFeed, listCalls, pendingCalendars,
                   formattedText, result, merged, currentSlot, mergeIndex>>

\* The server's time zone and the time range of the fetch.
fetchVars == <<serverOffset, timeMinUTC, timeMaxUTC>>

\* The module-level OAuth2 client and the requests that share it.
clientVars == <<oauthCredentials, handlers, apiCalls>>

\* The googleTokens table.
tableVars == <<googleTokens, nextId, lastUpserted, selected>>

\* The browser session of the cookie-based API.
sessionVars == <<cookieJar, inFlight, lastResponse, sessionEra>>

vars == <<input, allEvents, pc, currentYear, currentMonth, currentDay,
          processedDates, dayEvents, currentSlotStart, availableSlots,
          tokens, calendarFeed, listCalls, pendingCalendars, formattedText,
          result, merged, currentSlot, mergeIndex,
          serverOffset, timeMinUTC, timeMaxUTC,
          oauthCredentials, handlers, apiCalls,
          googleTokens, nextId, lastUpserted, selected,
          cookieJar, inFlight, lastResponse, sessionEra>>

(***************************************************************************)
(* Bounds of the model.                                                    *)
(***************************************************************************)
MaxEvents == 2        \* longest event list drawn by Init
MaxRangeDays == 7     \* longest date range (end - start, in days) drawn by InitDates
MaxCalendars == 3     \* longest calendarIds array drawn by InitFetch
MaxSlots == 4         \* longest slot list drawn by InitMerge
MaxProcessed == 12    \* number of processedDates entries kept

(***************************************************************************)
(* Calendar arithmetic of the JavaScript Date object.                      *)
(***************************************************************************)
JSTOffsetHours == 9

\* The number NaN of JavaScript: what Number gives for text that is not a
\* number and what arithmetic gives for undefined or NaN operands.  It is
\* kept apart from every number the program computes.
NaN == -2147483647
IsNaN(x) == x = NaN

\* a < b and a > b of JavaScript: false when either side is NaN.
LessThan(a, b) == ~IsNaN(a) /\ ~IsNaN(b) /\ a < b
GreaterThan(a, b) == ~IsNaN(a) /\ ~IsNaN(b) /\ a > b

\* const sMonth = sMonth0 - 1: the 0-based month of a parsed month number.
Month0(m) == IF IsNaN(m) THEN NaN ELSE m - 1

IsLeapYear(y) == (y % 4 = 0 /\ y % 100 # 0) \/ y % 400 = 0

\* Mutant: February always has 28 days.
DaysInMonth_NoLeap(y, m0) ==
    IF m0 = 1 THEN 28
    ELSE IF m0 \in {3, 5, 8, 10} THEN 30 ELSE 31

\* new Date(year, month + 1, 0).getDate(): the last day of the 0-based month.
DaysInMonth(y, m0) ==
    IF IsNaN(y) \/ IsNaN(m0) THEN NaN
    ELSE IF m0 = 1 THEN (IF IsLeapYear(y) THEN 29 ELSE 28)
    ELSE IF m0 \in {3, 5, 8, 10} THEN 30 ELSE 31

\* Day number (days since 1970-01-01) of year / 0-based month / day, the date
\* part of Date.UTC; day may run past the month's end, as Date.UTC allows.
DaysFromCivil(y, m0, d) ==
    LET m   == m0 + 1
        yy  == IF m <= 2 THEN y - 1 ELSE y
        era == yy \div 400
        yoe == yy - era * 400
        mp  == IF m > 2 THEN m - 3 ELSE m + 9
        doy == (153 * mp + 2) \div 5 + d - 1
        doe == yoe * 365 + yoe \div 4 - yoe \div 100 + doy
    IN  era * 146097 + doe - 719468

\* Date.UTC(year, month, day, hour, minute, 0, 0), in minutes; hour may be
\* negative (hour - 9) and then reaches into the previous day.
DateUTC(y, m0, d, h, mi) ==
    DaysFromCivil(y, m0, d) * 1440 + h * 60 + mi

\* Mutant: getUTCDay() of the local midnight on a server east of Greenwich,
\* which is the weekday of the day before.
GetDay_UTC(y, m0, d) == (DaysFromCivil(y, m0, d) + 3) % 7

\* new Date(year, month, day).getDay(): weekday of the civil date, 0 = Sunday.
GetDay(y, m0, d) ==
    IF IsNaN(y) \/ IsNaN(m0) \/ IsNaN(d) THEN NaN
    ELSE (DaysFromCivil(y, m0, d) + 4) % 7

\* An Invalid Date (time value NaN) when a component is NaN.
createJSTDate(y, m0, d, h, mi) ==
    IF IsNaN(y) \/ IsNaN(m0) \/ IsNaN(d) THEN NaN
    ELSE DateUTC(y, m0, d, h - JSTOffsetHours, mi)

(***************************************************************************)
(* Events.  An event is [summary, start, end]; summary is the sequence of  *)
(* its UTF-16 code units (one-character strings, non-ASCII units written   *)
(* "U+xxxx"); start and end are [kind, y, m, d, h, mi, off]: kind          *)
(* "dateTime" is an RFC 3339 local time y-m-d h:mi with UTC offset off     *)
(* minutes, kind "date" is an all-day date y-m-d, kind "none" is a         *)
(* missing field.                                                          *)
(***************************************************************************)
UpperAlpha == <<"A","B","C","D","E","F","G","H","I","J","K","L","M",
                "N","O","P","Q","R","S","T","U","V","W","X","Y","Z">>
LowerAlpha == <<"a","b","c","d","e","f","g","h","i","j","k","l","m",
                "n","o","p","q","r","s","t","u","v","w","x","y","z">>

\* String.prototype.toLowerCase on the code units the model uses.
toLowerCase(s) ==
    [i \in 1..Len(s) |->
        IF \E k \in 1..26 : UpperAlpha[k] = s[i]
        THEN LowerAlpha[CHOOSE k \in 1..26 : UpperAlpha[k] = s[i]]
        ELSE s[i]]

\* String.prototype.includes
includes(hay, needle) ==
    \E i \in 1..(Len(hay) - Len(needle) + 1) :
        SubSeq(hay, i, i + Len(needle) - 1) = needle

TanjoubiToken == <<"U+8A95", "U+751F", "U+65E5">>
BirthdayToken == <<"b","i","r","t","h","d","a","y">>

\* Mutant: an all-day date is parsed as new Date("YYYY-MM-DD"), UTC midnight.
parseEventTime_DateAsUTC(t) ==
    IF t.kind = "dateTime"
    THEN DateUTC(t.y, t.m - 1, t.d, t.h, t.mi) - t.off
    ELSE DateUTC(t.y, t.m - 1, t.d, 0, 0)

\* parseEventTime for a field that is present (kind # "none").
parseEventTime(t) ==
    IF t.kind = "dateTime"
    THEN DateUTC(t.y, t.m - 1, t.d, t.h, t.mi) - t.off
    ELSE createJSTDate(t.y, t.m - 1, t.d, 0, 0)

isAllDayEvent(event) == event.start.kind = "date"

\* Mutant: "birthday" is looked for without lower-casing the summary.
IsBirthdayAllDay_CaseSensitive(event) ==
    /\ isAllDayEvent(event)
    /\ \/ includes(event.summary, TanjoubiToken)
       \/ includes(event.summary, BirthdayToken)

\* The birthday test of the dayEvents filter.
IsBirthdayAllDay(event) ==
    /\ isAllDayEvent(event)
    /\ \/ includes(event.summary, TanjoubiToken)
       \/ includes(toLowerCase(event.summary), BirthdayToken)

\* The predicate of allEvents.filter(...) for one day.
DayEventFilter(event, inp, dayStart, dayEnd) ==
    IF IsBirthdayAllDay(event) THEN FALSE
    ELSE IF inp.ignoreAllDayEvents /\ isAllDayEvent(event) THEN FALSE
    ELSE IF event.start.kind = "none" \/ event.end.kind = "none" THEN FALSE
    ELSE /\ LessThan(parseEventTime(event.start), dayEnd)
         /\ GreaterThan(parseEventTime(event.end), dayStart)

\* Array.prototype.sort with the comparator aStart - bStart: a stable sort
\* by start instant (insertion of each element after its equals).
RECURSIVE InsertByStart(_, _)
InsertByStart(sorted, ev) ==
    IF sorted = << >> THEN <<ev>>
    ELSE IF parseEventTime(ev.start) < parseEventTime(Head(sorted).start)
         THEN <<ev>> \o sorted
         ELSE <<Head(sorted)>> \o InsertByStart(Tail(sorted), ev)

\* Mutant: dayEvents is swept in the order of allEvents, unsorted.
SortByStart_None(evs) == evs

RECURSIVE SortByStart(_)
SortByStart(evs) ==
    IF evs = << >> THEN << >>
    ELSE InsertByStart(SortByStart(SubSeq(evs, 1, Len(evs) - 1)), evs[Len(evs)])

\* Mutant: every day's window starts on the first date of the range.
DayStartOf_FirstDate(inp, y, m0, d) ==
    createJSTDate(inp.startDate[1], Month0(inp.startDate[2]), inp.startDate[3],
                  inp.workingHoursStart, 0)

DayStartOf(inp, y, m0, d) == createJSTDate(y, m0, d, inp.workingHoursStart, 0)
DayEndOf(inp, y, m0, d) == createJSTDate(y, m0, d, inp.workingHoursEnd, 0)

\* dayEvents of one day: filter, then sort.
DayEventsOf(events, inp, y, m0, d) ==
    SortByStart(SelectSeq(events,
        LAMBDA e : DayEventFilter(e, inp, DayStartOf(inp, y, m0, d),
                                  DayEndOf(inp, y, m0, d))))

(***************************************************************************)
(* The sweep of one day.                                                   *)
(***************************************************************************)
AdjustedEventStart(event, inp, dayStart) ==
    LET a == parseEventTime(event.start) - inp.bufferBeforeMinutes
    IN  IF a < dayStart THEN dayStart ELSE a

AdjustedEventEnd(event, inp, dayEnd) ==
    LET a == parseEventTime(event.end) + inp.bufferAfterMinutes
    IN  IF a > dayEnd THEN dayEnd ELSE a

\* Mutant: the loop tests the slot's start, not its end, against the limit.
RECURSIVE SliceSlots_Overrun(_, _, _)
SliceSlots_Overrun(slotStart, limit, duration) ==
    IF slotStart < limit
    THEN <<[start |-> slotStart, end |-> slotStart + duration]>>
         \o SliceSlots_Overrun(slotStart + duration, limit, duration)
    ELSE << >>

\* Mutant: the loop test is strict, dropping a slot that ends on the limit.
RECURSIVE SliceSlots_Strict(_, _, _)
SliceSlots_Strict(slotStart, limit, duration) ==
    IF slotStart + duration < limit
    THEN <<[start |-> slotStart, end |-> slotStart + duration]>>
         \o SliceSlots_Strict(slotStart + duration, limit, duration)
    ELSE << >>

\* The inner while loop: slots of slotDurationMinutes from slotStart while a
\* whole slot still ends at or before limit.
RECURSIVE SliceSlots(_, _, _)
SliceSlots(slotStart, limit, duration) ==
    IF slotStart + duration <= limit
    THEN <<[start |-> slotStart, end |-> slotStart + duration]>>
         \o SliceSlots(slotStart + duration, limit, duration)
    ELSE << >>

\* Mutant: in merge mode a gap shorter than slotDurationMinutes is dropped.
EmitGap_MinLength(from, to, inp) ==
    IF inp.mergeSlots
    THEN (IF to - from >= inp.slotDurationMinutes
          THEN <<[start |-> from, end |-> to]>> ELSE << >>)
    ELSE SliceSlots(from, to, inp.slotDurationMinutes)

\* What the code pushes for the free interval [from, to), from < to.
EmitGap(from, to, inp) ==
    IF inp.mergeSlots
    THEN <<[start |-> from, end |-> to]>>
    ELSE SliceSlots(from, to, inp.slotDurationMinutes)

\* Mutant: the gap is emitted without testing currentSlotStart < adjustedEventStart.
EventGapSlots_Unguarded(event, cur, inp, dayStart) ==
    IF inp.mergeSlots
    THEN <<[start |-> cur, end |-> AdjustedEventStart(event, inp, dayStart)]>>
    ELSE SliceSlots(cur, AdjustedEventStart(event, inp, dayStart),
                    inp.slotDurationMinutes)

\* Slots pushed by one iteration of `for (const event of dayEvents)`.
EventGapSlots(event, cur, inp, dayStart) ==
    IF cur < AdjustedEventStart(event, inp, dayStart)
    THEN EmitGap(cur, AdjustedEventStart(event, inp, dayStart), inp)
    ELSE << >>

\* Mutant: the cursor is set to the event's end even when that moves it back.
AdvanceCursor_NoMax(event, cur, inp, dayEnd) ==
    AdjustedEventEnd(event, inp, dayEnd)

\* currentSlotStart after that iteration.
AdvanceCursor(event, cur, inp, dayEnd) ==
    IF AdjustedEventEnd(event, inp, dayEnd) > cur
    THEN AdjustedEventEnd(event, inp, dayEnd)
    ELSE cur

\* Mutant: the trailing gap is emitted without testing currentSlotStart < dayEnd.
TrailingSlots_Unguarded(cur, inp, dayEnd) == EmitGap(cur, dayEnd, inp)

\* Slots pushed after the for loop (time left after the last event).
TrailingSlots(cur, inp, dayEnd) ==
    IF LessThan(cur, dayEnd) THEN EmitGap(cur, dayEnd, inp) ELSE << >>

(***************************************************************************)
(* The day loop.                                                           *)
(***************************************************************************)
DateNum(y, m0, d) ==
    IF IsNaN(y) \/ IsNaN(m0) \/ IsNaN(d) THEN NaN
    ELSE y * 10000 + (m0 + 1) * 100 + d

StartDateNum(inp) == DateNum(inp.startDate[1], Month0(inp.startDate[2]), inp.startDate[3])
EndDateNum(inp) == DateNum(inp.endDate[1], Month0(inp.endDate[2]), inp.endDate[3])

\* currentDay++ with the month / year rollover: the next <<year, month0, day>>.
NextDay(y, m0, d) ==
    LET next == IF IsNaN(d) THEN NaN ELSE d + 1
    IN  IF GreaterThan(next, DaysInMonth(y, m0))
        THEN (IF m0 + 1 > 11 THEN <<y + 1, 0, 1>> ELSE <<y, m0 + 1, 1>>)
        ELSE <<y, m0, next>>

IsExcludedDay(inp, y, m0, d) == GetDay(y, m0, d) \in inp.excludedDays

\* The slots one day contributes: the for loop over the sorted dayEvents
\* followed by the trailing gap.
RECURSIVE SweepDay(_, _, _, _, _)
SweepDay(evs, cur, inp, dayStart, dayEnd) ==
    IF evs = << >> THEN TrailingSlots(cur, inp, dayEnd)
    ELSE EventGapSlots(Head(evs), cur, inp, dayStart)
         \o SweepDay(Tail(evs), AdvanceCursor(Head(evs), cur, inp, dayEnd),
                     inp, dayStart, dayEnd)

\* The while (true) loop from the date <<y, m0, d>> on: availableSlots as a
\* function of the event list and the request.
RECURSIVE WalkDays(_, _, _, _, _)
WalkDays(events, inp, y, m0, d) ==
    IF GreaterThan(DateNum(y, m0, d), EndDateNum(inp)) THEN << >>
    ELSE (IF IsExcludedDay(inp, y, m0, d) THEN << >>
          ELSE SweepDay(DayEventsOf(events, inp, y, m0, d),
                        DayStartOf(inp, y, m0, d), inp,
                        DayStartOf(inp, y, m0, d), DayEndOf(inp, y, m0, d)))
         \o WalkDays(events, inp, NextDay(y, m0, d)[1], NextDay(y, m0, d)[2],
                     NextDay(y, m0, d)[3])

\* The slot list the handler returns for an event list and a request.
ComputeSlots(events, inp) ==
    WalkDays(events, inp, inp.startDate[1], Month0(inp.startDate[2]), inp.startDate[3])

(***************************************************************************)
(* The handler as a state machine.                                         *)
(***************************************************************************)
dayStart == DayStartOf(input, currentYear, currentMonth, currentDay)
dayEnd == DayEndOf(input, currentYear, currentMonth, currentDay)

\* processedDates.push(dateStr); the model keeps the first MaxProcessed dates.
PushDate(dates, y, m0, d) ==
    IF Len(dates) < MaxProcessed
    THEN Append(dates, <<y, IF IsNaN(m0) THEN NaN ELSE m0 + 1, d>>)
    ELSE dates

\* if (currentDateNum > endDateNum) break;
LoopBreak ==
    /\ pc = "loop"
    /\ GreaterThan(DateNum(currentYear, currentMonth, currentDay), EndDateNum(input))
    /\ pc' = "done"
    /\ UNCHANGED <<input, allEvents, currentYear, currentMonth, currentDay,
                   processedDates, dayEvents, currentSlotStart, availableSlots>>
    /\ UNCHANGED restVars

\* The excludedDays branch: record the date, advance, continue.
SkipExcludedDay ==
    /\ pc = "loop"
    /\ ~GreaterThan(DateNum(currentYear, currentMonth, currentDay), EndDateNum(input))
    /\ IsExcludedDay(input, currentYear, currentMonth, currentDay)
    /\ processedDates' = PushDate(processedDates, currentYear, currentMonth, currentDay)
    /\ currentYear' = NextDay(currentYear, currentMonth, currentDay)[1]
    /\ currentMonth' = NextDay(currentYear, currentMonth, currentDay)[2]
    /\ currentDay' = NextDay(currentYear, currentMonth, currentDay)[3]
    /\ UNCHANGED <<input, allEvents, pc, dayEvents, currentSlotStart, availableSlots>>
    /\ UNCHANGED restVars

\* A working day: record the date, filter and sort its events, reset the cursor.
BeginDay ==
    /\ pc = "loop"
    /\ ~GreaterThan(DateNum(currentYear, currentMonth, currentDay), EndDateNum(input))
    /\ ~IsExcludedDay(input, currentYear, currentMonth, currentDay)
    /\ processedDates' = PushDate(processedDates, currentYear, currentMonth, currentDay)
    /\ dayEvents' = DayEventsOf(allEvents, input, currentYear, currentMonth, currentDay)
    /\ currentSlotStart' = dayStart
    /\ pc' = "sweep"
    /\ UNCHANGED <<input, allEvents, currentYear, currentMonth, currentDay,
                   availableSlots>>
    /\ UNCHANGED restVars

\* One iteration of the for loop over dayEvents.
SweepEvent ==
    /\ pc = "sweep"
    /\ dayEvents # << >>
    /\ availableSlots' = availableSlots
            \o EventGapSlots(Head(dayEvents), currentSlotStart, input, dayStart)
    /\ currentSlotStart' = AdvanceCursor(Head(dayEvents), currentSlotStart, input, dayEnd)
    /\ dayEvents' = Tail(dayEvents)
    /\ UNCHANGED <<input, allEvents, pc, currentYear, currentMonth, currentDay,
                   processedDates>>
    /\ UNCHANGED restVars

\* After the for loop: the trailing gap, then currentDay++ with rollover.
EndDay ==
    /\ pc = "sweep"
    /\ dayEvents = << >>
    /\ availableSlots' = availableSlots \o TrailingSlots(currentSlotStart, input, dayEnd)
    /\ currentYear' = NextDay(currentYear, currentMonth, currentDay)[1]
    /\ currentMonth' = NextDay(currentYear, currentMonth, currentDay)[2]
    /\ currentDay' = NextDay(currentYear, currentMonth, currentDay)[3]
    /\ pc' = "loop"
    /\ UNCHANGED <<input, allEvents, processedDates, dayEvents, currentSlotStart>>
    /\ UNCHANGED restVars

Next ==
    \/ LoopBreak
    \/ SkipExcludedDay
    \/ BeginDay
    \/ SweepEvent
    \/ EndDay

(***************************************************************************)
(* Inputs.  Requests satisfy the zod schema of getAvailableSlots; events    *)
(* are what the calendar feed returns (start <= end, all-day events carry   *)
(* start.date and the exclusive end.date).                                  *)
(***************************************************************************)
\* The civil date <<year, month, day>> (month 1-based) of a day number.
CivilFromDays(n) ==
    LET z   == n + 719468
        era == z \div 146097
        doe == z - era * 146097
        yoe == (doe - doe \div 1460 + doe \div 36524 - doe \div 146096) \div 365
        doy == doe - (365 * yoe + yoe \div 4 - yoe \div 100)
        mp  == (5 * doy + 2) \div 153
        d   == doy - (153 * mp + 2) \div 5 + 1
        m   == IF mp < 10 THEN mp + 3 ELSE mp - 9
        y   == yoe + era * 400 + (IF m <= 2 THEN 1 ELSE 0)
    IN  <<y, m, d>>

DayNumber(date) == DaysFromCivil(date[1], date[2] - 1, date[3])
AddDays(date, k) == CivilFromDays(DayNumber(date) + k)

\* y-m-dTh:mi:00+09:00
AtJST(date, h, mi) ==
    [kind |-> "dateTime", y |-> date[1], m |-> date[2], d |-> date[3],
     h |-> h, mi |-> mi, off |-> 540]
\* y-m-dTh:mi:00Z
AtUTC(date, h, mi) ==
    [kind |-> "dateTime", y |-> date[1], m |-> date[2], d |-> date[3],
     h |-> h, mi |-> mi, off |-> 0]
OnDate(date) ==
    [kind |-> "date", y |-> date[1], m |-> date[2], d |-> date[3],
     h |-> 0, mi |-> 0, off |-> 0]

Timed(summary, from, to) == [summary |-> summary, start |-> from, end |-> to]
AllDay(summary, date) ==
    [summary |-> summary, start |-> OnDate(date), end |-> OnDate(AddDays(date, 1))]

SMeeting == <<"M","e","e","t","i","n","g">>
SHoliday == <<"H","o","l","i","d","a","y">>
SBirthdayLunch == <<"b","i","r","t","h","d","a","y"," ","l","u","n","c","h">>
SBobsBirthday == <<"B","o","b"," ","B","I","R","T","H","D","A","Y">>
STanjoubi == <<"U+6BCD", "U+8A95", "U+751F", "U+65E5">>

DayD == <<2025, 11, 4>>   \* a Tuesday

Requests(ranges, windows, durations, buffers, merges, ignores, excluded) ==
    { [startDate |-> r[1], endDate |-> r[2],
       workingHoursStart |-> w[1], workingHoursEnd |-> w[2],
       slotDurationMinutes |-> dur,
       bufferBeforeMinutes |-> b[1], bufferAfterMinutes |-> b[2],
       mergeSlots |-> mg, ignoreAllDayEvents |-> ig, excludedDays |-> ex] :
      r \in ranges, w \in windows, dur \in durations, b \in buffers,
      mg \in merges, ig \in ignores, ex \in excluded }

EventLists(pool) == UNION { [1..n -> pool] : n \in 0..MaxEvents }

\* Timed events of one day around the 9-18 window: the scenario event, one
\* ending at the window's start, one beginning at its end, one straddling the
\* start, an overlapping pair and a nested event.
SweepPool ==
    { Timed(SMeeting, AtJST(DayD, 10, 0), AtJST(DayD, 11, 0)),
      Timed(SMeeting, AtJST(DayD, 8, 30), AtJST(DayD, 9, 0)),
      Timed(SMeeting, AtUTC(DayD, 9, 0), AtUTC(DayD, 10, 0)),
      Timed(SMeeting, AtJST(DayD, 8, 0), AtJST(DayD, 9, 30)),
      Timed(SBirthdayLunch, AtJST(DayD, 10, 30), AtJST(DayD, 12, 15)),
      Timed(SMeeting, AtJST(DayD, 10, 15), AtJST(DayD, 10, 45)) }

SweepRequests ==
    Requests({<<DayD, DayD>>}, {<<9, 18>>, <<18, 9>>}, {30, 45},
             {<<0, 0>>, <<30, 0>>, <<0, 30>>, <<120, 120>>},
             BOOLEAN, {TRUE}, {{}})
    \cup Requests({<<DayD, DayD>>}, {<<9, 18>>}, {30}, {<<0, 0>>},
                  {FALSE}, {TRUE}, {{2}})

\* Three days around DayD with all-day events on DayD (a holiday and two
\* birthdays), a timed event titled "birthday lunch", and timed events late on
\* the day before and early on the day after.
AllDayPool ==
    { AllDay(SHoliday, DayD),
      AllDay(SBobsBirthday, DayD),
      AllDay(STanjoubi, DayD),
      Timed(SBirthdayLunch, AtJST(DayD, 10, 0), AtJST(DayD, 11, 0)),
      Timed(SMeeting, AtJST(AddDays(DayD, -1), 21, 0), AtJST(AddDays(DayD, -1), 22, 30)),
      Timed(SMeeting, AtJST(AddDays(DayD, 1), 0, 30), AtJST(AddDays(DayD, 1), 9, 30)) }

AllDayRequests ==
    Requests({<<AddDays(DayD, -1), AddDays(DayD, 1)>>}, {<<0, 23>>, <<9, 18>>}, {60},
             {<<0, 0>>, <<120, 120>>}, BOOLEAN, BOOLEAN, {{}})
    \cup Requests({<<AddDays(DayD, -1), AddDays(DayD, 1)>>}, {<<9, 18>>}, {60},
                  {<<0, 0>>}, {FALSE}, {FALSE}, {{2}})

\* Date ranges of 1 .. MaxRangeDays + 1 days that cross a month end, the end of
\* February in a leap and in a common year, and a year end; and the same
\* pairs reversed (start after end).
RangeStarts == { <<2025, 10, 31>>, <<2024, 2, 27>>, <<2025, 2, 27>>, <<2025, 12, 30>> }

DateRanges ==
    { <<st, AddDays(st, k)>> : st \in RangeStarts, k \in 0..MaxRangeDays }
    \cup { <<AddDays(st, k), st>> : st \in RangeStarts, k \in 1..MaxRangeDays }

DatesPool ==
    { Timed(SMeeting, AtJST(<<2025, 11, 1>>, 10, 0), AtJST(<<2025, 11, 1>>, 12, 0)),
      AllDay(SHoliday, <<2024, 2, 29>>) }

DatesRequests ==
    Requests(DateRanges, {<<9, 18>>, <<0, 23>>}, {240}, {<<0, 0>>}, BOOLEAN, {FALSE},
             {{}, {0, 6}, {5}})

\* Nothing returned yet.
NoResult == [kind |-> "none"]
\* No slot held by the merge pass.
NoSlot == [start |-> 0, end |-> 0]

\* No request is using the module-level OAuth2 client.
ClientIdle ==
    /\ oauthCredentials = "none"
    /\ handlers = << >>
    /\ apiCalls = << >>

\* The googleTokens table is empty.
TableIdle ==
    /\ googleTokens = << >>
    /\ nextId = 1
    /\ lastUpserted = << >>
    /\ selected = << >>

\* The browser has no cookie and has sent nothing.
SessionIdle ==
    /\ cookieJar = "none"
    /\ inFlight = << >>
    /\ lastResponse = NoResult
    /\ sessionEra = "none"

\* The state outside the day loop when only the day loop is looked at.
RestIdle ==
    /\ tokens = TRUE
    /\ calendarFeed = << >>
    /\ listCalls = << >>
    /\ pendingCalendars = << >>
    /\ formattedText = << >>
    /\ result = NoResult
    /\ merged = << >>
    /\ currentSlot = NoSlot
    /\ mergeIndex = 0
    /\ serverOffset = 0
    /\ timeMinUTC = 0
    /\ timeMaxUTC = 0
    /\ ClientIdle
    /\ TableIdle
    /\ SessionIdle

\* No getAvailableSlots call is being looked at.
HandlerIdle ==
    /\ input = << >>
    /\ allEvents = << >>
    /\ pc = "idle"
    /\ currentYear = 0
    /\ currentMonth = 0
    /\ currentDay = 0
    /\ processedDates = << >>
    /\ dayEvents = << >>
    /\ currentSlotStart = 0
    /\ availableSlots = << >>
    /\ tokens = TRUE
    /\ calendarFeed = << >>
    /\ listCalls = << >>
    /\ pendingCalendars = << >>
    /\ formattedText = << >>
    /\ result = NoResult
    /\ merged = << >>
    /\ currentSlot = NoSlot
    /\ mergeIndex = 0
    /\ serverOffset = 0
    /\ timeMinUTC = 0
    /\ timeMaxUTC = 0

InitWith(requests, pool) ==
    /\ input \in requests
    /\ allEvents \in EventLists(pool)
    /\ pc = "loop"
    /\ currentYear = input.startDate[1]
    /\ currentMonth = Month0(input.startDate[2])
    /\ currentDay = input.startDate[3]
    /\ processedDates = << >>
    /\ dayEvents = << >>
    /\ currentSlotStart = 0
    /\ availableSlots = << >>
    /\ RestIdle

Init == InitWith(SweepRequests, SweepPool)

InitAllDay == InitWith(AllDayRequests, AllDayPool)
InitDates == InitWith(DatesRequests, DatesPool)

Spec == Init /\ [][Next]_vars
SpecAllDay == InitAllDay /\ [][Next]_vars
SpecDates == InitDates /\ [][Next]_vars

(***************************************************************************)
(* The whole procedure: input validation, tokens, the fetch loop, the day  *)
(* loop above, formatting and the returned object.                         *)
(***************************************************************************)
\* Mutant: the hours are checked for their minimum only.
ZodAccepts_NoHourMax(inp) ==
    /\ inp.workingHoursStart >= 0
    /\ inp.workingHoursEnd >= 0
    /\ inp.slotDurationMinutes >= 15 /\ inp.slotDurationMinutes <= 240
    /\ inp.bufferBeforeMinutes >= 0 /\ inp.bufferBeforeMinutes <= 120
    /\ inp.bufferAfterMinutes >= 0 /\ inp.bufferAfterMinutes <= 120
    /\ \A x \in inp.excludedDays : x >= 0 /\ x <= 6

\* The z.object(...) schema of the procedure, for requests whose fields have
\* the right types: the .min() / .max() checks.
ZodAccepts(inp) ==
    /\ inp.workingHoursStart >= 0 /\ inp.workingHoursStart <= 23
    /\ inp.workingHoursEnd >= 0 /\ inp.workingHoursEnd <= 23
    /\ inp.slotDurationMinutes >= 15 /\ inp.slotDurationMinutes <= 240
    /\ inp.bufferBeforeMinutes >= 0 /\ inp.bufferBeforeMinutes <= 120
    /\ inp.bufferAfterMinutes >= 0 /\ inp.bufferAfterMinutes <= 120
    /\ \A x \in inp.excludedDays : x >= 0 /\ x <= 6

\* What tRPC throws when the input does not parse.
BadRequest == [kind |-> "error", code |-> "BAD_REQUEST"]
\* throw new Error("Google Calendar not connected")
NotConnected == [kind |-> "error", code |-> "Google Calendar not connected"]

\* input.calendarIds || ["primary"]: an array, even an empty one, is truthy.
PrimaryOnly == <<"primary">>
CalendarIdsOf(inp) ==
    IF inp.calendarIds.given THEN inp.calendarIds.ids ELSE PrimaryOnly

\* Mutant: the date key of a slot is taken in UTC.
toLocaleDateString_UTC(t) ==
    LET n == t \div 1440
        c == CivilFromDays(n)
    IN  <<c[1], c[2], c[3], (n + 4) % 7>>

\* slot.start.toLocaleDateString("ja-JP", {timeZone: "Asia/Tokyo", year,
\* month, day, weekday}): the date and weekday of the instant at UTC+9.
toLocaleDateString(t) ==
    LET n == (t + JSTOffsetHours * 60) \div 1440
        c == CivilFromDays(n)
    IN  <<c[1], c[2], c[3], (n + 4) % 7>>

\* toLocaleTimeString("ja-JP", {timeZone: "Asia/Tokyo", hour, minute,
\* hour12: false}): hour and minute of the instant at UTC+9.
toLocaleTimeString(t) ==
    <<((t + JSTOffsetHours * 60) % 1440) \div 60, (t + JSTOffsetHours * 60) % 60>>

\* The lines of formattedText.
NoAvailabilityLine == [kind |-> "no-availability"]
BlankLine == [kind |-> "blank"]
HeaderLine(dateKey) == [kind |-> "header", date |-> dateKey]
SlotLine(slot) ==
    [kind |-> "slot", from |-> toLocaleTimeString(slot.start),
     to |-> toLocaleTimeString(slot.end)]

\* The keys of the Map slotsByDate in insertion order: each date key at the
\* place of the first slot that has it.
RECURSIVE MapKeys(_, _)
MapKeys(slots, seen) ==
    IF slots = << >> THEN << >>
    ELSE IF toLocaleDateString(Head(slots).start) \in seen
         THEN MapKeys(Tail(slots), seen)
         ELSE <<toLocaleDateString(Head(slots).start)>>
              \o MapKeys(Tail(slots), seen \cup {toLocaleDateString(Head(slots).start)})

\* slotsByDate.get(dateKey): the slots with that key, in order.
MapGet(slots, dateKey) ==
    SelectSeq(slots, LAMBDA sl : toLocaleDateString(sl.start) = dateKey)

\* The text one Map entry adds: header, one line per slot, an empty line.
EntryText(slots, dateKey) ==
    <<HeaderLine(dateKey)>>
    \o [i \in 1..Len(MapGet(slots, dateKey)) |-> SlotLine(MapGet(slots, dateKey)[i])]
    \o <<BlankLine>>

RECURSIVE EntriesText(_, _)
EntriesText(slots, keys) ==
    IF keys = << >> THEN << >>
    ELSE EntryText(slots, Head(keys)) \o EntriesText(slots, Tail(keys))

\* String.prototype.trim on the text: empty lines at either end go.
RECURSIVE trim(_)
trim(lines) ==
    IF lines = << >> THEN << >>
    ELSE IF Head(lines) = BlankLine THEN trim(Tail(lines))
    ELSE IF lines[Len(lines)] = BlankLine THEN trim(SubSeq(lines, 1, Len(lines) - 1))
    ELSE lines

\* Mutant: no slots give an empty text.
FormatSlots_EmptyText(slots) ==
    trim(EntriesText(slots, MapKeys(slots, {})))

\* formattedText as built from availableSlots.
FormatSlots(slots) ==
    IF Len(slots) = 0 THEN <<NoAvailabilityLine>>
    ELSE trim(EntriesText(slots, MapKeys(slots, {})))

\* Mutant: without any fetched event the procedure reports a failure.
ReturnValue_FailWithoutEvents(inp, slots, text, events, dates) ==
    IF events = << >>
    THEN [kind |-> "error", code |-> "INTERNAL_SERVER_ERROR"]
    ELSE [kind |-> "ok", slots |-> slots, formattedText |-> text,
          totalSlots |-> Len(slots),
          debug |-> [inputStartDate |-> inp.startDate, inputEndDate |-> inp.endDate,
                     totalEvents |-> Len(events),
                     startDateNum |-> StartDateNum(inp), endDateNum |-> EndDateNum(inp),
                     processedDates |-> dates]]

\* The object the query returns.  Of debug, the fields that echo the parsed
\* request dates in the server's local time (parsedStartDate, parsedEndDate,
\* startDateComponents, endDateComponents) and the per-date slot counts
\* (slotsByDate) are left out.
ReturnValue(inp, slots, text, events, dates) ==
    [kind |-> "ok", slots |-> slots, formattedText |-> text,
     totalSlots |-> Len(slots),
     debug |-> [inputStartDate |-> inp.startDate, inputEndDate |-> inp.endDate,
                totalEvents |-> Len(events),
                startDateNum |-> StartDateNum(inp), endDateNum |-> EndDateNum(inp),
                processedDates |-> dates]]

\* The input does not parse: tRPC answers BAD_REQUEST, the query never runs.
RejectInput ==
    /\ pc = "request"
    /\ ~ZodAccepts(input)
    /\ pc' = "thrown"
    /\ result' = BadRequest
    /\ UNCHANGED <<input, allEvents, currentYear, currentMonth, currentDay,
                   processedDates, dayEvents, currentSlotStart, availableSlots,
                   tokens, calendarFeed, listCalls, pendingCalendars,
                   formattedText, merged, currentSlot, mergeIndex>>
    /\ UNCHANGED fetchVars
    /\ UNCHANGED clientVars
    /\ UNCHANGED tableVars
    /\ UNCHANGED sessionVars

\* The input parses and the query starts.
AcceptInput ==
    /\ pc = "request"
    /\ ZodAccepts(input)
    /\ pc' = "tokens"
    /\ UNCHANGED <<input, allEvents, currentYear, currentMonth, currentDay,
                   processedDates, dayEvents, currentSlotStart, availableSlots,
                   tokens, calendarFeed, listCalls, pendingCalendars,
                   formattedText, result, merged, currentSlot, mergeIndex>>
    /\ UNCHANGED fetchVars
    /\ UNCHANGED clientVars
    /\ UNCHANGED tableVars
    /\ UNCHANGED sessionVars

\* if (!tokens) throw new Error("Google Calendar not connected");
ThrowNotConnected ==
    /\ pc = "tokens"
    /\ ~tokens
    /\ pc' = "thrown"
    /\ result' = NotConnected
    /\ UNCHANGED <<input, allEvents, currentYear, currentMonth, currentDay,
                   processedDates, dayEvents, currentSlotStart, availableSlots,
                   tokens, calendarFeed, listCalls, pendingCalendars,
                   formattedText, merged, currentSlot, mergeIndex>>
    /\ UNCHANGED fetchVars
    /\ UNCHANGED clientVars
    /\ UNCHANGED tableVars
    /\ UNCHANGED sessionVars

\* Time-zone offsets of the server: UTC, Asia/Tokyo, America/Los_Angeles
\* (standard time), in minutes east of UTC.
ServerOffsets == {0, 540, -480}

\* new Date(year, month - 1, day) in the server's local time zone.
LocalMidnight(date, tz) == DayNumber(date) * 1440 - tz

\* setUTCHours(0, 0, 0, 0)
StartOfUTCDay(t) == (t \div 1440) * 1440
\* setUTCHours(23, 59, 59, 999): the minute the result lies in.
EndOfUTCDay(t) == (t \div 1440) * 1440 + 1439

\* timeMinUTC: startDate is the local midnight of the first date.
TimeMinUTC(inp, tz) == StartOfUTCDay(LocalMidnight(inp.startDate, tz))

\* timeMaxUTC: endDate is the local midnight after the last date (endDay + 1).
TimeMaxUTC(inp, tz) == EndOfUTCDay(LocalMidnight(AddDays(inp.endDate, 1), tz))

\* What events.list returns of a calendar's events: those that end after
\* timeMin and start before timeMax (which lies at second 59.999 of its
\* minute, so a start on a whole minute is before it iff it is not after
\* that minute).
ListedItems(items, tmin, tmax) ==
    SelectSeq(items, LAMBDA e : /\ parseEventTime(e.end) > tmin
                                /\ parseEventTime(e.start) <= tmax)

\* const calendarIds = input.calendarIds || ["primary"]; allEvents = [];
BeginFetch ==
    /\ pc = "tokens"
    /\ tokens
    /\ timeMinUTC' = TimeMinUTC(input, serverOffset)
    /\ timeMaxUTC' = TimeMaxUTC(input, serverOffset)
    /\ pendingCalendars' = CalendarIdsOf(input)
    /\ allEvents' = << >>
    /\ pc' = "fetch"
    /\ UNCHANGED <<input, currentYear, currentMonth, currentDay,
                   processedDates, dayEvents, currentSlotStart, availableSlots,
                   tokens, calendarFeed, listCalls, formattedText, result,
                   merged, currentSlot, mergeIndex, serverOffset>>
    /\ UNCHANGED clientVars
    /\ UNCHANGED tableVars
    /\ UNCHANGED sessionVars

\* Mutant: a failed fetch also empties what was collected so far.
EventsAfterFailure_Discard(events) == << >>

\* allEvents after the catch block of one calendar: console.error only.
EventsAfterFailure(events) == events

\* One iteration of the fetch loop whose events.list call succeeds.
FetchSucceeds ==
    /\ pc = "fetch"
    /\ pendingCalendars # << >>
    /\ ~calendarFeed[Head(pendingCalendars)].fails
    /\ listCalls' = Append(listCalls, Head(pendingCalendars))
    /\ allEvents' = allEvents \o ListedItems(calendarFeed[Head(pendingCalendars)].items,
                                           timeMinUTC, timeMaxUTC)
    /\ pendingCalendars' = Tail(pendingCalendars)
    /\ UNCHANGED <<input, pc, currentYear, currentMonth, currentDay,
                   processedDates, dayEvents, currentSlotStart, availableSlots,
                   tokens, calendarFeed, formattedText, result,
                   merged, currentSlot, mergeIndex>>
    /\ UNCHANGED fetchVars
    /\ UNCHANGED clientVars
    /\ UNCHANGED tableVars
    /\ UNCHANGED sessionVars

\* One iteration of the fetch loop whose events.list call throws.
FetchFails ==
    /\ pc = "fetch"
    /\ pendingCalendars # << >>
    /\ calendarFeed[Head(pendingCalendars)].fails
    /\ listCalls' = Append(listCalls, Head(pendingCalendars))
    /\ allEvents' = EventsAfterFailure(allEvents)
    /\ pendingCalendars' = Tail(pendingCalendars)
    /\ UNCHANGED <<input, pc, currentYear, currentMonth, currentDay,
                   processedDates, dayEvents, currentSlotStart, availableSlots,
                   tokens, calendarFeed, formattedText, result,
                   merged, currentSlot, mergeIndex>>
    /\ UNCHANGED fetchVars
    /\ UNCHANGED clientVars
    /\ UNCHANGED tableVars
    /\ UNCHANGED sessionVars

\* The fetch loop is over: the day loop's variables are set up.
BeginLoop ==
    /\ pc = "fetch"
    /\ pendingCalendars = << >>
    /\ currentYear' = input.startDate[1]
    /\ currentMonth' = Month0(input.startDate[2])
    /\ currentDay' = input.startDate[3]
    /\ processedDates' = << >>
    /\ availableSlots' = << >>
    /\ pc' = "loop"
    /\ UNCHANGED <<input, allEvents, dayEvents, currentSlotStart,
                   tokens, calendarFeed, listCalls, pendingCalendars,
                   formattedText, result, merged, currentSlot, mergeIndex>>
    /\ UNCHANGED fetchVars
    /\ UNCHANGED clientVars
    /\ UNCHANGED tableVars
    /\ UNCHANGED sessionVars

\* After the day loop: the text is built and the object returned.
FormatAndReturn ==
    /\ pc = "done"
    /\ formattedText' = FormatSlots(availableSlots)
    /\ result' = ReturnValue(input, availableSlots, FormatSlots(availableSlots),
                             allEvents, processedDates)
    /\ pc' = "returned"
    /\ UNCHANGED <<input, allEvents, currentYear, currentMonth, currentDay,
                   processedDates, dayEvents, currentSlotStart, availableSlots,
                   tokens, calendarFeed, listCalls, pendingCalendars,
                   merged, currentSlot, mergeIndex>>
    /\ UNCHANGED fetchVars
    /\ UNCHANGED clientVars
    /\ UNCHANGED tableVars
    /\ UNCHANGED sessionVars

NextProcedure ==
    \/ RejectInput \/ AcceptInput \/ ThrowNotConnected \/ BeginFetch
    \/ FetchSucceeds \/ FetchFails \/ BeginLoop
    \/ LoopBreak \/ SkipExcludedDay \/ BeginDay \/ SweepEvent \/ EndDay
    \/ FormatAndReturn

\* A request as it arrives: the fields of the day loop and calendarIds.
WithCalendarIds(requests, idChoices) ==
    { [startDate |-> r.startDate, endDate |-> r.endDate,
       workingHoursStart |-> r.workingHoursStart,
       workingHoursEnd |-> r.workingHoursEnd,
       slotDurationMinutes |-> r.slotDurationMinutes,
       bufferBeforeMinutes |-> r.bufferBeforeMinutes,
       bufferAfterMinutes |-> r.bufferAfterMinutes,
       mergeSlots |-> r.mergeSlots, ignoreAllDayEvents |-> r.ignoreAllDayEvents,
       excludedDays |-> r.excludedDays, calendarIds |-> c] :
      r \in requests, c \in idChoices }

Given(ids) == [given |-> TRUE, ids |-> ids]
NotGiven == [given |-> FALSE, ids |-> << >>]

\* The procedure before it is called with one of the requests, against one
\* of the feeds.
InitProcedure(requests, feeds, connected) ==
    /\ input \in requests
    /\ calendarFeed \in feeds
    /\ tokens \in connected
    /\ pc = "request"
    /\ allEvents = << >>
    /\ currentYear = 0
    /\ currentMonth = 0
    /\ currentDay = 0
    /\ processedDates = << >>
    /\ dayEvents = << >>
    /\ currentSlotStart = 0
    /\ availableSlots = << >>
    /\ listCalls = << >>
    /\ pendingCalendars = << >>
    /\ formattedText = << >>
    /\ result = NoResult
    /\ merged = << >>
    /\ currentSlot = NoSlot
    /\ mergeIndex = 0
    /\ ClientIdle
    /\ TableIdle
    /\ SessionIdle
    /\ serverOffset \in ServerOffsets
    /\ timeMinUTC = 0
    /\ timeMaxUTC = 0

(***************************************************************************)
(* Vocabulary of the properties.                                           *)
(***************************************************************************)
\* The instant h:mi o'clock on a civil date in UTC+9.
JSTInstant(date, h, mi) == DayNumber(date) * 1440 + h * 60 + mi - 540

\* The UTC+9 civil date on which an instant falls.
JSTDateOf(t) == CivilFromDays((t + 540) \div 1440)

WindowStart(date) == JSTInstant(date, input.workingHoursStart, 0)
WindowEnd(date) == JSTInstant(date, input.workingHoursEnd, 0)

CurrentDate == <<currentYear, currentMonth + 1, currentDay>>

\* The slots the step from the current state to the next one appends.
NewSlots == SubSeq(availableSlots', Len(availableSlots) + 1, Len(availableSlots'))

\* [a1, a2) and [b1, b2) have a point in common.
Intersects(a1, a2, b1, b2) ==
    (IF a1 > b1 THEN a1 ELSE b1) < (IF a2 < b2 THEN a2 ELSE b2)

\* The event passes the all-day / birthday exclusion policy (4.2 step 3).
SurvivesPolicy(e) ==
    /\ ~(e.start.kind = "date" /\ (includes(e.summary, TanjoubiToken)
                                   \/ includes(toLowerCase(e.summary), BirthdayToken)))
    /\ ~(e.start.kind = "date" /\ input.ignoreAllDayEvents)

BusyStart(e) == parseEventTime(e.start) - input.bufferBeforeMinutes
BusyEnd(e) == parseEventTime(e.end) + input.bufferAfterMinutes

Scenario(merge) ==
    [startDate |-> DayD, endDate |-> DayD, workingHoursStart |-> 9,
     workingHoursEnd |-> 18, slotDurationMinutes |-> 30,
     bufferBeforeMinutes |-> 0, bufferAfterMinutes |-> 0, mergeSlots |-> merge,
     ignoreAllDayEvents |-> TRUE, excludedDays |-> {}]

ScenarioEvent == Timed(SMeeting, AtJST(DayD, 10, 0), AtJST(DayD, 11, 0))

\* C1: no emitted slot intersects [start - bufferBefore, end + bufferAfter) of
\* any input event that survives the exclusion policy, whether or not the event
\* overlaps the day's working-hours window.
C1_NoSlotInBufferedBusy ==
    \A i \in 1..Len(availableSlots) : \A k \in 1..Len(allEvents) :
        SurvivesPolicy(allEvents[k]) =>
            ~Intersects(availableSlots[i].start, availableSlots[i].end,
                        BusyStart(allEvents[k]), BusyEnd(allEvents[k]))

\* C2: every slot the loop emits while on date D lies inside
\* [workingHoursStart o'clock, workingHoursEnd o'clock] of D in UTC+9.
C2_SlotsInsideWindow ==
    [][\A i \in 1..Len(NewSlots) :
          /\ WindowStart(CurrentDate) <= NewSlots[i].start
          /\ NewSlots[i].end <= WindowEnd(CurrentDate)]_vars

\* C2 witness: a finished run that emitted slots although an event's buffer
\* reached outside the window (the clamped case).
C2_Witness ==
    /\ pc = "done"
    /\ availableSlots # << >>
    /\ input.bufferBeforeMinutes = 120
    /\ \E k \in 1..Len(allEvents) :
          /\ BusyStart(allEvents[k]) < WindowStart(DayD)
          /\ parseEventTime(allEvents[k].end) > WindowStart(DayD)
          /\ BusyEnd(allEvents[k]) < WindowEnd(DayD)

\* C3: every emitted slot has start < end, and without mergeSlots its length is
\* exactly slotDurationMinutes.
C3_SlotLength ==
    \A i \in 1..Len(availableSlots) :
        /\ availableSlots[i].start < availableSlots[i].end
        /\ ~input.mergeSlots =>
              availableSlots[i].end - availableSlots[i].start
                  = input.slotDurationMinutes

\* C3 witness: a run slicing into 45-minute slots has emitted slots around two
\* events.
C3_Witness ==
    /\ pc = "done"
    /\ ~input.mergeSlots
    /\ input.slotDurationMinutes = 45
    /\ Len(allEvents) = 2
    /\ Len(availableSlots) > 2

\* The slices of the gap [g, h) in closed form.
ExpectedSlices(g, h, dur) ==
    [i \in 1..((h - g) \div dur) |->
        [start |-> g + (i - 1) * dur, end |-> g + i * dur]]

\* C4: without mergeSlots each free gap [g, h) of the sweep yields exactly the
\* slots [g + i*d, g + (i+1)*d), i = 0 .. floor((h-g)/d) - 1, in order; the
\* event-free 9-18 day with d = 30 yields 18 slots and the same day with one
\* event 10:00-11:00 and no buffers yields 16.
C4_ExactSlicing ==
    /\ [][~input.mergeSlots =>
            /\ SweepEvent =>
                 NewSlots =
                   IF currentSlotStart < AdjustedEventStart(Head(dayEvents), input, dayStart)
                   THEN ExpectedSlices(currentSlotStart,
                            AdjustedEventStart(Head(dayEvents), input, dayStart),
                            input.slotDurationMinutes)
                   ELSE << >>
            /\ EndDay =>
                 NewSlots =
                   IF currentSlotStart < dayEnd
                   THEN ExpectedSlices(currentSlotStart, dayEnd,
                                       input.slotDurationMinutes)
                   ELSE << >>]_vars
    /\ [](pc = "done" /\ input = Scenario(FALSE) =>
            /\ allEvents = << >> =>
                 availableSlots =
                    ExpectedSlices(JSTInstant(DayD, 9, 0), JSTInstant(DayD, 18, 0), 30)
                 /\ Len(availableSlots) = 18
            /\ allEvents = <<ScenarioEvent>> =>
                 availableSlots =
                    ExpectedSlices(JSTInstant(DayD, 9, 0), JSTInstant(DayD, 10, 0), 30)
                    \o ExpectedSlices(JSTInstant(DayD, 11, 0), JSTInstant(DayD, 18, 0), 30)
                 /\ Len(availableSlots) = 16)

\* C4 witness: the one-event scenario has produced its 16 slots.
C4_Witness ==
    /\ pc = "done"
    /\ input = Scenario(FALSE)
    /\ allEvents = <<ScenarioEvent>>
    /\ Len(availableSlots) = 16

\* The minutes of date's window that the emitted slots cover.
CoveredMinutes(date) ==
    LET spans == { <<availableSlots[i].start, availableSlots[i].end>> :
                     i \in 1..Len(availableSlots) }
    IN  { t \in WindowStart(date)..(WindowEnd(date) - 1) :
            \E sp \in spans : sp[1] <= t /\ t < sp[2] }

\* The events of a day: those that pass the exclusion policy and overlap the
\* window (4.2 steps 2-3).
SurvivesDay(e, date) ==
    /\ SurvivesPolicy(e)
    /\ parseEventTime(e.start) < WindowEnd(date)
    /\ parseEventTime(e.end) > WindowStart(date)

\* The minutes of date's window outside every clamped, buffer-adjusted
\* interval of the day's events.
FreeMinutes(date) ==
    LET busy == { <<BusyStart(allEvents[k]), BusyEnd(allEvents[k])>> :
                    k \in { j \in 1..Len(allEvents) : SurvivesDay(allEvents[j], date) } }
    IN  { t \in WindowStart(date)..(WindowEnd(date) - 1) :
            \A b \in busy : ~(b[1] <= t /\ t < b[2]) }

\* C5: with mergeSlots, on every processed working day the union of the
\* emitted slots is the window minus the clamped, buffer-adjusted intervals of
\* that day's events; one event 10:00-11:00 in the 9-18 day without buffers
\* gives exactly 09:00-10:00 and 11:00-18:00.
C5_MergedUnionIsFreeTime ==
    (pc = "done" /\ input.mergeSlots) =>
        /\ \A n \in 1..Len(processedDates) :
              ~IsExcludedDay(input, processedDates[n][1], processedDates[n][2] - 1,
                             processedDates[n][3])
              => CoveredMinutes(processedDates[n]) = FreeMinutes(processedDates[n])
        /\ (input = Scenario(TRUE) /\ allEvents = <<ScenarioEvent>>) =>
              availableSlots =
                <<[start |-> JSTInstant(DayD, 9, 0), end |-> JSTInstant(DayD, 10, 0)],
                  [start |-> JSTInstant(DayD, 11, 0), end |-> JSTInstant(DayD, 18, 0)]>>

\* C5 witness: a merged run over two overlapping events left free time on
\* both sides of them.
C5_Witness ==
    /\ pc = "done"
    /\ input.mergeSlots
    /\ Len(allEvents) = 2
    /\ Len(availableSlots) = 2
    /\ availableSlots[1].end < availableSlots[2].start

\* The weekday (0 = Sunday) of a civil date, counted from DayD, a Tuesday.
WeekdayOf(date) == (DayNumber(date) - DayNumber(DayD) + 2) % 7

\* C6: no slot starts on a UTC+9 date whose weekday is in excludedDays.
C6_NoSlotOnExcludedWeekday ==
    \A i \in 1..Len(availableSlots) :
        WeekdayOf(JSTDateOf(availableSlots[i].start)) \notin input.excludedDays

\* C6 witness: a finished run skipped a Saturday on which an event lies and
\* emitted slots on other days.
C6_Witness ==
    /\ pc = "done"
    /\ input.excludedDays = {0, 6}
    /\ \E n \in 1..Len(processedDates) : WeekdayOf(processedDates[n]) = 6
    /\ Len(allEvents) > 0
    /\ availableSlots # << >>

\* The list without its k-th element.
RemoveAt(seq, k) == SubSeq(seq, 1, k - 1) \o SubSeq(seq, k + 1, Len(seq))

IsBirthdaySummary(summary) ==
    \/ includes(summary, TanjoubiToken)
    \/ includes(toLowerCase(summary), BirthdayToken)

\* C7: an all-day event whose summary contains the birthday token does not
\* change the returned slots, whatever ignoreAllDayEvents is: the result equals
\* the result for the list without that event.
C7_BirthdayHasNoEffect ==
    pc = "done" =>
        \A k \in 1..Len(allEvents) :
            (allEvents[k].start.kind = "date" /\ IsBirthdaySummary(allEvents[k].summary))
            => availableSlots = ComputeSlots(RemoveAt(allEvents, k), input)

\* C7 witness: ignoreAllDayEvents is false, the list holds an upper-case
\* BIRTHDAY all-day event, and the day it lies on still got slots.
C7_Witness ==
    /\ pc = "done"
    /\ ~input.ignoreAllDayEvents
    /\ \E k \in 1..Len(allEvents) : allEvents[k] = AllDay(SBobsBirthday, DayD)
    /\ \E i \in 1..Len(availableSlots) : JSTDateOf(availableSlots[i].start) = DayD

\* The slots that do not start on the given UTC+9 date.
SlotsOffDate(slots, date) == SelectSeq(slots, LAMBDA sl : JSTDateOf(sl.start) # date)

\* A non-birthday all-day event covering exactly one date.
IsPlainAllDay(e) ==
    /\ e.start.kind = "date"
    /\ e.end.kind = "date"
    /\ ~IsBirthdaySummary(e.summary)
    /\ <<e.end.y, e.end.m, e.end.d>> = AddDays(<<e.start.y, e.start.m, e.start.d>>, 1)

\* C8: with ignoreAllDayEvents false a non-birthday all-day event on date D
\* leaves no slot on D and does not change the slots of any other date; with
\* ignoreAllDayEvents true it changes nothing.
C8_AllDayBlocksItsDateOnly ==
    pc = "done" =>
        \A k \in 1..Len(allEvents) :
            IsPlainAllDay(allEvents[k]) =>
                LET date == <<allEvents[k].start.y, allEvents[k].start.m,
                              allEvents[k].start.d>>
                    without == ComputeSlots(RemoveAt(allEvents, k), input)
                IN  IF input.ignoreAllDayEvents
                    THEN availableSlots = without
                    ELSE /\ \A i \in 1..Len(availableSlots) :
                               JSTDateOf(availableSlots[i].start) # date
                         /\ SlotsOffDate(availableSlots, date)
                               = SlotsOffDate(without, date)

\* C8 witness: ignoreAllDayEvents false, buffers of 120 minutes, hours 0-23, a
\* holiday on DayD: the neighbouring days have slots, DayD has none although
\* it would have had some.
C8_Witness ==
    /\ pc = "done"
    /\ ~input.ignoreAllDayEvents
    /\ input.bufferBeforeMinutes = 120
    /\ input.workingHoursStart = 0
    /\ allEvents = <<AllDay(SHoliday, DayD)>>
    /\ \E i \in 1..Len(availableSlots) :
          JSTDateOf(availableSlots[i].start) = AddDays(DayD, -1)
    /\ \E i \in 1..Len(availableSlots) :
          JSTDateOf(availableSlots[i].start) = AddDays(DayD, 1)
    /\ \E i \in 1..Len(ComputeSlots(<< >>, input)) :
          JSTDateOf(ComputeSlots(<< >>, input)[i].start) = DayD

\* C9: for start <= end the loop visits exactly the calendar dates from start
\* to end inclusive, once each, ascending: at every moment the visited dates
\* are the first dates of that list, and at the end all of them.
C9_VisitsEachDateOnce ==
    DayNumber(input.startDate) <= DayNumber(input.endDate) =>
        /\ \A n \in 1..Len(processedDates) :
              /\ processedDates[n] = CivilFromDays(DayNumber(input.startDate) + n - 1)
              /\ DayNumber(processedDates[n]) <= DayNumber(input.endDate)
        /\ pc = "done" =>
              Len(processedDates)
                  = DayNumber(input.endDate) - DayNumber(input.startDate) + 1

\* C9 witness: 2025-10-31 .. 2025-11-07 has been walked and gave 8 dates.
C9_Witness ==
    /\ pc = "done"
    /\ input.startDate = <<2025, 10, 31>>
    /\ input.endDate = <<2025, 11, 7>>
    /\ Len(processedDates) = 8
    /\ processedDates[2] = <<2025, 11, 1>>

\* C10: a request whose start date is after its end date does not return a
\* successful result.
C10_InvalidRangeRejected ==
    StartDateNum(input) > EndDateNum(input) => pc # "done"

(***************************************************************************)
(* C11: windows that are empty or inverted.                                *)
(***************************************************************************)
\* Two days from DayD; events that cover the whole of DayD, that cover the
\* hours 8-19, that run overnight into the next day, an all-day holiday and
\* a midday meeting.
InvertedPool ==
    { Timed(SMeeting, AtJST(DayD, 0, 0), AtJST(DayD, 23, 59)),
      Timed(SMeeting, AtJST(DayD, 8, 0), AtJST(DayD, 19, 0)),
      Timed(SMeeting, AtJST(DayD, 20, 0), AtJST(AddDays(DayD, 1), 10, 0)),
      AllDay(SHoliday, DayD),
      Timed(SMeeting, AtJST(DayD, 11, 0), AtJST(DayD, 13, 0)) }

\* Inverted windows (18-9, 23-0), empty windows (12-12, 0-0) and the proper
\* window 9-18 beside them.
InvertedRequests ==
    Requests({<<DayD, AddDays(DayD, 1)>>},
             {<<18, 9>>, <<23, 0>>, <<12, 12>>, <<0, 0>>, <<9, 18>>}, {15, 60},
             {<<0, 0>>, <<120, 120>>}, BOOLEAN, BOOLEAN, {{}})
    \cup Requests({<<DayD, AddDays(DayD, 1)>>}, {<<18, 9>>}, {60}, {<<0, 0>>},
                  {TRUE}, {FALSE}, {{2}})

InitInverted == InitWith(InvertedRequests, InvertedPool)
SpecInverted == InitInverted /\ [][Next]_vars

\* C11: with workingHoursStart >= workingHoursEnd no slot is ever emitted,
\* whatever the events, the buffers and mergeSlots are, and the loop is not
\* cut short: when it ends, it has gone through every date of the range.
C11_EmptyWindowNoSlots ==
    input.workingHoursStart >= input.workingHoursEnd
        => /\ availableSlots = << >>
           /\ pc = "done" =>
                 processedDates =
                     [k \in 1..(DayNumber(input.endDate) - DayNumber(input.startDate) + 1)
                        |-> AddDays(input.startDate, k - 1)]

\* An inverted window in merge mode, with an event that was kept for a day
\* (it covers the whole inverted window) and swept, and the loop finished.
C11_Witness ==
    /\ pc = "done"
    /\ input.workingHoursStart > input.workingHoursEnd
    /\ input.mergeSlots
    /\ input.bufferBeforeMinutes = 120
    /\ Len(processedDates) = 2
    /\ \E i \in 1..Len(allEvents) :
          DayEventFilter(allEvents[i], input,
                         DayStartOf(input, DayD[1], DayD[2] - 1, DayD[3]),
                         DayEndOf(input, DayD[1], DayD[2] - 1, DayD[3]))
    /\ availableSlots = << >>

(***************************************************************************)
(* C12: input validation.                                                  *)
(***************************************************************************)
ValidationEvent == Timed(SMeeting, AtJST(DayD, 10, 0), AtJST(DayD, 11, 0))

\* Requests at and beyond each limit of the schema: hours -1, 0, 23, 24,
\* durations -30, 0, 14, 15, 240, 241, buffers -1, 0, 120, 121, weekday 7;
\* inverted and empty windows within the limits.
ValidationRequests ==
    WithCalendarIds(
        Requests({<<DayD, DayD>>},
                 {<<9, 18>>, <<18, 9>>, <<12, 12>>, <<0, 23>>, <<-1, 18>>, <<9, 24>>, <<24, 9>>},
                 {-30, 0, 14, 15, 240, 241},
                 {<<0, 0>>, <<120, 120>>, <<-1, 0>>, <<0, 121>>},
                 {FALSE}, {TRUE}, {{}})
        \cup Requests({<<DayD, DayD>>}, {<<9, 18>>}, {15}, {<<0, 0>>},
                      {TRUE}, {TRUE}, {{7}, {2}}),
        {NotGiven, Given(<<"work">>)})

ValidationFeeds ==
    { [primary |-> [fails |-> FALSE, items |-> <<ValidationEvent>>],
       work |-> [fails |-> f, items |-> << >>]] : f \in BOOLEAN }

InitValidation == InitProcedure(ValidationRequests, ValidationFeeds, BOOLEAN)
SpecValidation == InitValidation /\ [][NextProcedure]_vars

\* The ranges of the claim.
OutOfRange(inp) ==
    \/ inp.slotDurationMinutes \notin 15..240
    \/ inp.workingHoursStart \notin 0..23
    \/ inp.workingHoursEnd \notin 0..23
    \/ inp.bufferBeforeMinutes \notin 0..120
    \/ inp.bufferAfterMinutes \notin 0..120

\* C12: a request with a duration outside 15..240, an hour outside 0..23 or a
\* buffer outside 0..120 never gets past validation: events.list is never
\* called, the day loop never starts, and what is thrown is the validation
\* error; so the day loop only ever runs with a positive duration.  A request
\* within those ranges whose window is empty or inverted is never answered
\* with the validation error.
C12_ValidatedBeforeFetch ==
    /\ OutOfRange(input) =>
          /\ pc \in {"request", "thrown"}
          /\ pc = "thrown" => result = BadRequest
          /\ listCalls = << >>
          /\ processedDates = << >>
          /\ availableSlots = << >>
    /\ pc \in {"loop", "sweep"} => input.slotDurationMinutes > 0
    /\ ( /\ ~OutOfRange(input)
         /\ input.excludedDays \subseteq 0..6
         /\ input.workingHoursStart >= input.workingHoursEnd )
          => /\ result # BadRequest
             /\ pc = "thrown" => ~tokens

\* A request with slotDurationMinutes = 0 from a connected user was rejected.
C12_Witness ==
    /\ pc = "thrown"
    /\ result = BadRequest
    /\ input.slotDurationMinutes = 0
    /\ input.workingHoursStart = 9 /\ input.workingHoursEnd = 18
    /\ tokens

\* The other half of C12: a request with the window 18-9 went through
\* validation and was answered.
C12_WitnessInvertedAccepted ==
    /\ pc = "returned"
    /\ input.workingHoursStart = 18 /\ input.workingHoursEnd = 9
    /\ result.kind = "ok"

(***************************************************************************)
(* C13: the order of the fetched events.                                   *)
(***************************************************************************)
\* Events of DayD of which four start at the same instant 10:00 UTC+9 (one
\* written with the offset Z, one of zero length, one longer), one that
\* starts earlier and overlaps them, and one that follows.
OrderPool ==
    { Timed(SMeeting, AtJST(DayD, 10, 0), AtJST(DayD, 11, 0)),
      Timed(SMeeting, AtUTC(DayD, 1, 0), AtUTC(DayD, 1, 45)),
      Timed(SMeeting, AtJST(DayD, 10, 0), AtJST(DayD, 10, 0)),
      Timed(SMeeting, AtJST(DayD, 10, 0), AtJST(DayD, 12, 0)),
      Timed(SMeeting, AtJST(DayD, 9, 30), AtJST(DayD, 10, 30)),
      Timed(SMeeting, AtJST(DayD, 11, 0), AtJST(DayD, 11, 30)) }

OrderRequests ==
    Requests({<<DayD, DayD>>}, {<<9, 18>>}, {30, 45},
             {<<0, 0>>, <<15, 0>>, <<30, 30>>}, BOOLEAN, {TRUE}, {{}})
    \cup Requests({<<DayD, DayD>>}, {<<9, 18>>}, {30}, {<<0, 0>>},
                  {FALSE}, {TRUE}, {{2}})

InitOrder == InitWith(OrderRequests, OrderPool)
SpecOrder == InitOrder /\ [][Next]_vars

\* The list evs rearranged by the permutation p of its indices.
Permuted(evs, p) == [i \in 1..Len(evs) |-> evs[p[i]]]

\* C13: the slot list the loop ends with is the slot list computed from any
\* rearrangement of the fetched events: same slots, same order.
C13_OrderOfEventsIrrelevant ==
    pc = "done" =>
        \A p \in Permutations(1..Len(allEvents)) :
            availableSlots = ComputeSlots(Permuted(allEvents, p), input)

\* Two events with the same start instant, the longer one listed first, were
\* swept and slots came out.
C13_Witness ==
    /\ pc = "done"
    /\ Len(allEvents) = 2
    /\ parseEventTime(allEvents[1].start) = parseEventTime(allEvents[2].start)
    /\ parseEventTime(allEvents[1].end) > parseEventTime(allEvents[2].end)
    /\ allEvents[1].start # allEvents[2].start
    /\ availableSlots # << >>

(***************************************************************************)
(* C14, C15: calendars whose fetch fails.                                  *)
(***************************************************************************)
CalendarNames == {"primary", "work", "team"}

\* calendarIds arrays of up to MaxCalendars ids (repetitions included), the
\* empty array, and the field left out.
FetchIdChoices ==
    {NotGiven} \cup { Given(ids) : ids \in UNION { [1..n -> CalendarNames] : n \in 0..MaxCalendars } }

\* Each calendar has its own events on DayD; each may fail.
FetchFeeds ==
    { [primary |-> [fails |-> f[1],
                    items |-> <<Timed(SMeeting, AtJST(DayD, 10, 0), AtJST(DayD, 11, 0))>>],
       work    |-> [fails |-> f[2],
                    items |-> <<Timed(SMeeting, AtJST(DayD, 13, 0), AtJST(DayD, 14, 0))>>],
       team    |-> [fails |-> f[3],
                    items |-> <<Timed(SMeeting, AtJST(DayD, 9, 0), AtJST(DayD, 9, 30)),
                                Timed(SMeeting, AtJST(DayD, 16, 0), AtJST(DayD, 18, 0))>>]] :
      f \in [1..3 -> BOOLEAN] }

FetchRequests ==
    WithCalendarIds(
        Requests({<<DayD, DayD>>}, {<<9, 18>>}, {60}, {<<0, 0>>}, BOOLEAN, {TRUE}, {{}}),
        FetchIdChoices)
    \cup WithCalendarIds(
        Requests({<<DayD, DayD>>}, {<<9, 18>>}, {60, 10}, {<<0, 0>>}, {FALSE}, {TRUE}, {{2}}),
        {NotGiven})

InitFetch == InitProcedure(FetchRequests, FetchFeeds, BOOLEAN)
SpecFetch == InitFetch /\ [][NextProcedure]_vars

\* The items of those of the calendars ids whose fetch succeeds, concatenated
\* in the order of ids.
RECURSIVE SucceededItems(_)
SucceededItems(ids) ==
    IF ids = << >> THEN << >>
    ELSE (IF calendarFeed[Head(ids)].fails THEN << >>
          ELSE calendarFeed[Head(ids)].items)
         \o SucceededItems(Tail(ids))

SomeFetchFailed == \E i \in 1..Len(listCalls) : calendarFeed[listCalls[i]].fails
SomeFetchSucceeded == \E i \in 1..Len(listCalls) : ~calendarFeed[listCalls[i]].fails

\* C14: during the fetch loop allEvents is the concatenation of the items of
\* the calendars asked so far that answered (a failure discards nothing);
\* after it every selected calendar has been asked (a failure stops nothing);
\* no error is thrown once fetching has begun; and the returned slots are
\* those computed from the events of the calendars that answered.
C14_PartialFailureProceeds ==
    /\ pc = "fetch" =>
          /\ allEvents = SucceededItems(listCalls)
          /\ listCalls \o pendingCalendars = CalendarIdsOf(input)
    /\ pc \in {"loop", "sweep", "done", "returned"} =>
          /\ listCalls = CalendarIdsOf(input)
          /\ allEvents = SucceededItems(CalendarIdsOf(input))
    /\ pc = "thrown" => listCalls = << >>
    /\ pc = "returned" =>
          /\ result.kind = "ok"
          /\ result.slots = ComputeSlots(SucceededItems(CalendarIdsOf(input)), input)
          /\ result.debug.totalEvents = Len(SucceededItems(CalendarIdsOf(input)))

\* Three calendars were asked; the first and the last answered, the one in
\* between failed; the procedure returned slots around the events of the two.
C14_Witness ==
    /\ pc = "returned"
    /\ Len(listCalls) = 3
    /\ ~calendarFeed[listCalls[1]].fails
    /\ calendarFeed[listCalls[2]].fails
    /\ ~calendarFeed[listCalls[3]].fails
    /\ listCalls[1] # listCalls[3]
    /\ Len(allEvents) >= 2
    /\ result.kind = "ok"
    /\ result.slots # << >>

\* The fields of an answer that say nothing about the fetches.
PlainFields == {"kind", "slots", "formattedText", "totalSlots", "debug"}
PlainDebugFields ==
    {"inputStartDate", "inputEndDate", "totalEvents", "startDateNum",
     "endDateNum", "processedDates"}

\* C15: when the fetch of at least one selected calendar failed, the returned
\* object has, beside the slots, a field that reports the failure.
C15_WarningOnPartialFailure ==
    (pc = "returned" /\ SomeFetchFailed) =>
        \/ DOMAIN result \ PlainFields # {}
        \/ DOMAIN result.debug \ PlainDebugFields # {}

(***************************************************************************)
(* C16, C17: the formatted text.                                           *)
(***************************************************************************)
DaySun == <<2025, 11, 2>>   \* a Sunday
DayMon == <<2025, 11, 3>>

\* An event that fills Monday from 0:00 to 23:00, one that runs from Monday
\* 22:00 over midnight to Tuesday 2:00, and a Sunday morning meeting.
TextPool ==
    { Timed(SMeeting, AtJST(DayMon, 0, 0), AtJST(DayMon, 23, 0)),
      Timed(SMeeting, AtJST(DayMon, 22, 0), AtJST(DayD, 2, 0)),
      Timed(SMeeting, AtJST(DaySun, 9, 0), AtJST(DaySun, 13, 0)) }

\* The single Sunday and the three days Sunday to Tuesday; windows 0-23,
\* 0-8 and 9-18; no weekday, Sunday or Monday excluded; and one request the
\* schema rejects.
TextRequests ==
    WithCalendarIds(
        Requests({<<DaySun, DaySun>>, <<DaySun, DayD>>},
                 {<<0, 23>>, <<0, 8>>, <<9, 18>>}, {240}, {<<0, 0>>},
                 BOOLEAN, {TRUE}, {{}, {0}, {1}})
        \cup Requests({<<DaySun, DaySun>>}, {<<9, 18>>}, {241}, {<<0, 0>>},
                      {FALSE}, {TRUE}, {{}}),
        {NotGiven})

TextFeeds ==
    { [primary |-> [fails |-> FALSE, items |-> evs]] : evs \in EventLists(TextPool) }
    \cup { [primary |-> [fails |-> TRUE, items |-> << >>]] }

InitText == InitProcedure(TextRequests, TextFeeds, BOOLEAN)
SpecText == InitText /\ [][NextProcedure]_vars

\* C16: the returned text is the no-availability message exactly when the
\* returned slot list is empty; and a range that is one excluded Sunday is
\* answered with that message.
C16_NoAvailabilityIffNoSlots ==
    pc = "returned" =>
        /\ (result.formattedText = <<NoAvailabilityLine>>) <=> (result.slots = << >>)
        /\ ( /\ input.startDate = DaySun
             /\ input.endDate = DaySun
             /\ 0 \in input.excludedDays )
              => result.formattedText = <<NoAvailabilityLine>>

\* The range was the single Sunday, Sunday was excluded, and the procedure
\* returned the message.
C16_Witness ==
    /\ pc = "returned"
    /\ input.startDate = DaySun /\ input.endDate = DaySun
    /\ input.excludedDays = {0}
    /\ result.slots = << >>
    /\ result.formattedText = <<NoAvailabilityLine>>

\* The other direction of C16: slots were returned and the text is not the
\* message.
C16_WitnessSlots ==
    /\ pc = "returned"
    /\ result.slots # << >>
    /\ result.formattedText # <<NoAvailabilityLine>>

\* The slots the day loop generates for the one date.
DaySlotsFor(date) ==
    ComputeSlots(allEvents, [input EXCEPT !.startDate = date, !.endDate = date])

\* Hour and minute of the instant t counted from 0:00 UTC+9 of the date.
ClockOn(date, t) ==
    <<(t - JSTInstant(date, 0, 0)) \div 60, (t - JSTInstant(date, 0, 0)) % 60>>

\* What the text is to hold for one date: nothing if the date has no slot,
\* else its header and one line per slot with the times of that date.
ExpectedEntry(date) ==
    IF DaySlotsFor(date) = << >> THEN << >>
    ELSE <<[kind |-> "header",
            date |-> <<date[1], date[2], date[3], WeekdayOf(date)>>]>>
         \o [i \in 1..Len(DaySlotsFor(date)) |->
                [kind |-> "slot",
                 from |-> ClockOn(date, DaySlotsFor(date)[i].start),
                 to |-> ClockOn(date, DaySlotsFor(date)[i].end)]]

\* The entries of the dates first .. first + k, ascending, one empty line
\* between two entries.
RECURSIVE ExpectedText(_, _)
ExpectedText(first, k) ==
    IF k < 0 THEN << >>
    ELSE LET rest == ExpectedText(AddDays(first, 1), k - 1)
             here == ExpectedEntry(first)
         IN  IF here = << >> THEN rest
             ELSE IF rest = << >> THEN here
             ELSE here \o <<BlankLine>> \o rest

\* C17: when slots are returned, the text is, for each date of the range in
\* ascending order that the loop generated slots for, one header with that
\* date (and its weekday) followed by one line per slot generated for it,
\* with the slot's times of day on that date; so every slot is on exactly one
\* line, under the header of its own date, and no header appears twice.
C17_TextGroupsByGenerationDate ==
    (pc = "returned" /\ result.slots # << >>) =>
        /\ result.formattedText =
              ExpectedText(input.startDate,
                           DayNumber(input.endDate) - DayNumber(input.startDate))
        /\ Cardinality({ i \in 1..Len(result.formattedText) :
                            result.formattedText[i].kind = "slot" }) = Len(result.slots)
        /\ \A i, j \in 1..Len(result.formattedText) :
              ( /\ result.formattedText[i].kind = "header"
                /\ result.formattedText[j].kind = "header"
                /\ i < j )
                 => DayNumber(SubSeq(result.formattedText[i].date, 1, 3))
                      < DayNumber(SubSeq(result.formattedText[j].date, 1, 3))

\* A window that starts at hour 0, slots that start at 0:00 on two days with
\* a day without slots (filled by an event) between them.
C17_Witness ==
    /\ pc = "returned"
    /\ input.workingHoursStart = 0
    /\ input.startDate = DaySun /\ input.endDate = DayD
    /\ input.excludedDays = {}
    /\ DaySlotsFor(DayMon) = << >>
    /\ \E i \in 1..Len(result.slots) : result.slots[i].start = JSTInstant(DaySun, 0, 0)
    /\ \E i \in 1..Len(result.slots) : JSTDateOf(result.slots[i].start) = DayD
    /\ Cardinality({ i \in 1..Len(result.formattedText) :
                        result.formattedText[i].kind = "header" }) = 2

(***************************************************************************)
(* C18: slotDurationMinutes in merge mode.                                 *)
(***************************************************************************)
\* Values of slotDurationMinutes the schema accepts, its two limits among them.
DurationSamples == {15, 20, 45, 60, 240}

\* C18: with mergeSlots the slot list the loop ends with is the one computed
\* for the same events and the same request with any other accepted
\* slotDurationMinutes.
C18_MergedSlotsIgnoreDuration ==
    (pc = "done" /\ input.mergeSlots) =>
        \A d \in DurationSamples :
            availableSlots = ComputeSlots(allEvents, [input EXCEPT !.slotDurationMinutes = d])

\* A merged run that returned a slot shorter than slotDurationMinutes beside
\* a longer one.
C18_Witness ==
    /\ pc = "done"
    /\ input.mergeSlots
    /\ \E i \in 1..Len(availableSlots) :
          availableSlots[i].end - availableSlots[i].start < input.slotDurationMinutes
    /\ \E i \in 1..Len(availableSlots) :
          availableSlots[i].end - availableSlots[i].start > 240

(***************************************************************************)
(* mergeConsecutiveSlots (src/unnamed/part_003), applied to availableSlots. *)
(***************************************************************************)
\* Mutant: a slot that starts at or before the current end is merged too.
IsConsecutive_Overlap(slot, cur) == slot.start <= cur.end

\* Mutant: a slot that starts up to an hour after the current end is merged.
IsConsecutive_WithinHour(slot, cur) ==
    slot.start >= cur.end /\ slot.start - cur.end <= 60

\* slot.start.getTime() === currentSlot.end.getTime()
IsConsecutive(slot, cur) == slot.start = cur.end

\* The for loop from index i (1-based here) with currentSlot = cur, and the
\* final push.
RECURSIVE MergeFrom(_, _, _)
MergeFrom(slots, cur, i) ==
    IF i > Len(slots) THEN <<cur>>
    ELSE IF IsConsecutive(slots[i], cur)
         THEN MergeFrom(slots, [cur EXCEPT !.end = slots[i].end], i + 1)
         ELSE <<cur>> \o MergeFrom(slots, slots[i], i + 1)

mergeConsecutiveSlots(slots) ==
    IF Len(slots) = 0 THEN << >> ELSE MergeFrom(slots, slots[1], 2)

\* if (slots.length === 0) return [];
MergeEmpty ==
    /\ pc = "merge"
    /\ Len(availableSlots) = 0
    /\ merged' = << >>
    /\ pc' = "merged"
    /\ UNCHANGED <<input, allEvents, currentYear, currentMonth, currentDay,
                   processedDates, dayEvents, currentSlotStart, availableSlots,
                   tokens, calendarFeed, listCalls, pendingCalendars,
                   formattedText, result, currentSlot, mergeIndex>>
    /\ UNCHANGED fetchVars
    /\ UNCHANGED clientVars
    /\ UNCHANGED tableVars
    /\ UNCHANGED sessionVars

\* merged = []; currentSlot = copy of slots[0]; i = 1
MergeBegin ==
    /\ pc = "merge"
    /\ Len(availableSlots) # 0
    /\ merged' = << >>
    /\ currentSlot' = availableSlots[1]
    /\ mergeIndex' = 1
    /\ pc' = "merging"
    /\ UNCHANGED <<input, allEvents, currentYear, currentMonth, currentDay,
                   processedDates, dayEvents, currentSlotStart, availableSlots,
                   tokens, calendarFeed, listCalls, pendingCalendars,
                   formattedText, result>>
    /\ UNCHANGED fetchVars
    /\ UNCHANGED clientVars
    /\ UNCHANGED tableVars
    /\ UNCHANGED sessionVars

\* Loop body, the slot starts where currentSlot ends: currentSlot is extended.
MergeExtend ==
    /\ pc = "merging"
    /\ mergeIndex < Len(availableSlots)
    /\ IsConsecutive(availableSlots[mergeIndex + 1], currentSlot)
    /\ currentSlot' = [currentSlot EXCEPT !.end = availableSlots[mergeIndex + 1].end]
    /\ mergeIndex' = mergeIndex + 1
    /\ UNCHANGED <<input, allEvents, pc, currentYear, currentMonth, currentDay,
                   processedDates, dayEvents, currentSlotStart, availableSlots,
                   tokens, calendarFeed, listCalls, pendingCalendars,
                   formattedText, result, merged>>
    /\ UNCHANGED fetchVars
    /\ UNCHANGED clientVars
    /\ UNCHANGED tableVars
    /\ UNCHANGED sessionVars

\* Loop body, otherwise: currentSlot is pushed and the slot becomes current.
MergePush ==
    /\ pc = "merging"
    /\ mergeIndex < Len(availableSlots)
    /\ ~IsConsecutive(availableSlots[mergeIndex + 1], currentSlot)
    /\ merged' = Append(merged, currentSlot)
    /\ currentSlot' = availableSlots[mergeIndex + 1]
    /\ mergeIndex' = mergeIndex + 1
    /\ UNCHANGED <<input, allEvents, pc, currentYear, currentMonth, currentDay,
                   processedDates, dayEvents, currentSlotStart, availableSlots,
                   tokens, calendarFeed, listCalls, pendingCalendars,
                   formattedText, result>>
    /\ UNCHANGED fetchVars
    /\ UNCHANGED clientVars
    /\ UNCHANGED tableVars
    /\ UNCHANGED sessionVars

\* After the loop: merged.push(currentSlot); return merged;
MergeFinish ==
    /\ pc = "merging"
    /\ mergeIndex >= Len(availableSlots)
    /\ merged' = Append(merged, currentSlot)
    /\ pc' = "merged"
    /\ UNCHANGED <<input, allEvents, currentYear, currentMonth, currentDay,
                   processedDates, dayEvents, currentSlotStart, availableSlots,
                   tokens, calendarFeed, listCalls, pendingCalendars,
                   formattedText, result, currentSlot, mergeIndex>>
    /\ UNCHANGED fetchVars
    /\ UNCHANGED clientVars
    /\ UNCHANGED tableVars
    /\ UNCHANGED sessionVars

NextMerge == MergeEmpty \/ MergeBegin \/ MergeExtend \/ MergePush \/ MergeFinish

(***************************************************************************)
(* C19: the merge pass on sorted slot lists.                               *)
(***************************************************************************)
\* Instants half an hour apart from 9:00 UTC+9 of DayD, and every slot
\* between two of them.
GridInstants == { JSTInstant(DayD, 9, 0) + 30 * k : k \in 0..3 }
GridSlots == { sl \in [start : GridInstants, end : GridInstants] : sl.start < sl.end }

SortedByStart(slots) ==
    \A i \in 1..(Len(slots) - 1) : slots[i].start <= slots[i + 1].start

\* Slot lists of up to MaxSlots slots in ascending order of start: touching,
\* overlapping, nested, repeated and separated slots.
SortedSlotLists ==
    { sls \in UNION { [1..n -> GridSlots] : n \in 0..MaxSlots } : SortedByStart(sls) }

\* mergeConsecutiveSlots about to be called on one of the lists.
InitMerge ==
    /\ availableSlots \in SortedSlotLists
    /\ pc = "merge"
    /\ input = [mergeSlots |-> TRUE]
    /\ allEvents = << >>
    /\ currentYear = 0
    /\ currentMonth = 0
    /\ currentDay = 0
    /\ processedDates = << >>
    /\ dayEvents = << >>
    /\ currentSlotStart = 0
    /\ RestIdle

SpecMerge == InitMerge /\ [][NextMerge]_vars

\* The instants of the grid a slot list covers.
UnionOf(slots) ==
    { t \in GridInstants : \E i \in 1..Len(slots) : slots[i].start <= t /\ t < slots[i].end }

\* C19: for a slot list in ascending order of start, the list the merge pass
\* returns is what the function computes, merging it again changes nothing,
\* it is in ascending order of start, no slot of it starts where the one
\* before it ends, and it covers the same instants as the input.
C19_MergeIdempotentOrderPreserving ==
    pc = "merged" =>
        /\ merged = mergeConsecutiveSlots(availableSlots)
        /\ mergeConsecutiveSlots(merged) = merged
        /\ SortedByStart(merged)
        /\ \A i \in 1..(Len(merged) - 1) : merged[i].end # merged[i + 1].start
        /\ UnionOf(merged) = UnionOf(availableSlots)

\* A list of MaxSlots slots with a touching pair and an overlapping pair was
\* merged into fewer slots, more than one.
C19_Witness ==
    /\ pc = "merged"
    /\ Len(availableSlots) = MaxSlots
    /\ \E i \in 1..(Len(availableSlots) - 1) :
          availableSlots[i].end = availableSlots[i + 1].start
    /\ \E i \in 1..(Len(availableSlots) - 1) :
          availableSlots[i].end > availableSlots[i + 1].start
    /\ Len(merged) > 1
    /\ Len(merged) < Len(availableSlots)

(***************************************************************************)
(* calculateAvailableSlots (src/unnamed/part_003): the same day loop, with *)
(* one bufferMinutes for both sides and always slicing, then the merge     *)
(* pass over the flat list if mergeSlots.                                  *)
(***************************************************************************)
\* The request of the day loop above that makes it run as the loop of
\* calculateAvailableSlots does: bufferMinutes on both sides, slices only.
LoopRequest(inp) ==
    [startDate |-> inp.startDate, endDate |-> inp.endDate,
     workingHoursStart |-> inp.workingHoursStart,
     workingHoursEnd |-> inp.workingHoursEnd,
     slotDurationMinutes |-> inp.slotDurationMinutes,
     bufferBeforeMinutes |-> inp.bufferMinutes,
     bufferAfterMinutes |-> inp.bufferMinutes,
     mergeSlots |-> FALSE, ignoreAllDayEvents |-> inp.ignoreAllDayEvents,
     excludedDays |-> inp.excludedDays]

\* The object calculateAvailableSlots returns.
LibraryValue(slots) == [kind |-> "ok", slots |-> slots]

\* The while (true) loop over the days, whole.
CalculateSlices ==
    /\ pc = "calculate"
    /\ availableSlots' = ComputeSlots(allEvents, LoopRequest(input))
    /\ pc' = "sliced"
    /\ UNCHANGED <<input, allEvents, currentYear, currentMonth, currentDay,
                   processedDates, dayEvents, currentSlotStart,
                   tokens, calendarFeed, listCalls, pendingCalendars,
                   formattedText, result, merged, currentSlot, mergeIndex>>
    /\ UNCHANGED fetchVars
    /\ UNCHANGED clientVars
    /\ UNCHANGED tableVars
    /\ UNCHANGED sessionVars

\* if (mergeSlots) { const merged = mergeConsecutiveSlots(availableSlots); ...
CallMerge ==
    /\ pc = "sliced"
    /\ input.mergeSlots
    /\ pc' = "merge"
    /\ UNCHANGED <<input, allEvents, currentYear, currentMonth, currentDay,
                   processedDates, dayEvents, currentSlotStart, availableSlots,
                   tokens, calendarFeed, listCalls, pendingCalendars,
                   formattedText, result, merged, currentSlot, mergeIndex>>
    /\ UNCHANGED fetchVars
    /\ UNCHANGED clientVars
    /\ UNCHANGED tableVars
    /\ UNCHANGED sessionVars

\* ... return { slots: merged, ... } }
ReturnMerged ==
    /\ pc = "merged"
    /\ result' = LibraryValue(merged)
    /\ pc' = "returned"
    /\ UNCHANGED <<input, allEvents, currentYear, currentMonth, currentDay,
                   processedDates, dayEvents, currentSlotStart, availableSlots,
                   tokens, calendarFeed, listCalls, pendingCalendars,
                   formattedText, merged, currentSlot, mergeIndex>>
    /\ UNCHANGED fetchVars
    /\ UNCHANGED clientVars
    /\ UNCHANGED tableVars
    /\ UNCHANGED sessionVars

\* return { slots: availableSlots, ... }
ReturnSlices ==
    /\ pc = "sliced"
    /\ ~input.mergeSlots
    /\ result' = LibraryValue(availableSlots)
    /\ pc' = "returned"
    /\ UNCHANGED <<input, allEvents, currentYear, currentMonth, currentDay,
                   processedDates, dayEvents, currentSlotStart, availableSlots,
                   tokens, calendarFeed, listCalls, pendingCalendars,
                   formattedText, merged, currentSlot, mergeIndex>>
    /\ UNCHANGED fetchVars
    /\ UNCHANGED clientVars
    /\ UNCHANGED tableVars
    /\ UNCHANGED sessionVars

NextLibrary ==
    \/ CalculateSlices \/ CallMerge \/ ReturnSlices
    \/ MergeEmpty \/ MergeBegin \/ MergeExtend \/ MergePush \/ MergeFinish
    \/ ReturnMerged

(***************************************************************************)
(* C20: merging the flat list of all days.                                 *)
(***************************************************************************)
\* Events of the three days Sunday to Tuesday: one over the midnight between
\* Sunday and Monday, one that fills Monday, one on Tuesday morning and one
\* on Tuesday from 1:00 to 1:30.
LibraryPool ==
    { Timed(SMeeting, AtJST(DaySun, 22, 0), AtJST(DayMon, 1, 0)),
      Timed(SMeeting, AtJST(DayMon, 0, 0), AtJST(DayMon, 23, 0)),
      Timed(SMeeting, AtJST(DayD, 9, 0), AtJST(DayD, 12, 0)),
      Timed(SMeeting, AtJST(DayD, 1, 0), AtJST(DayD, 1, 30)) }

\* The widest window 0-23, windows that end at 23 or start at 0, and 9-18;
\* slices of 30, 60 and 240 minutes; and a request that excludes all three
\* days.
LibraryRequests ==
    { [startDate |-> DaySun, endDate |-> DayD,
       workingHoursStart |-> w[1], workingHoursEnd |-> w[2],
       slotDurationMinutes |-> dur, bufferMinutes |-> b,
       excludedDays |-> ex, mergeSlots |-> mg, ignoreAllDayEvents |-> TRUE] :
      w \in {<<0, 23>>, <<12, 23>>, <<0, 12>>, <<9, 18>>}, dur \in {30, 60, 240},
      b \in {0, 30}, ex \in {{}, {1}}, mg \in BOOLEAN }
    \cup { [startDate |-> DaySun, endDate |-> DayD,
            workingHoursStart |-> 0, workingHoursEnd |-> 23,
            slotDurationMinutes |-> 60, bufferMinutes |-> 0,
            excludedDays |-> {0, 1, 2}, mergeSlots |-> TRUE,
            ignoreAllDayEvents |-> TRUE] }

\* calculateAvailableSlots about to be called.
InitLibrary ==
    /\ input \in LibraryRequests
    /\ allEvents \in EventLists(LibraryPool)
    /\ pc = "calculate"
    /\ currentYear = 0
    /\ currentMonth = 0
    /\ currentDay = 0
    /\ processedDates = << >>
    /\ dayEvents = << >>
    /\ currentSlotStart = 0
    /\ availableSlots = << >>
    /\ RestIdle

SpecLibrary == InitLibrary /\ [][NextLibrary]_vars

\* The dates of the request's range.
RangeDates ==
    { AddDays(input.startDate, k) :
        k \in 0..(DayNumber(input.endDate) - DayNumber(input.startDate)) }

\* C20: with mergeSlots every slot calculateAvailableSlots returns lies
\* within the working-hours window of one date of the range.
C20_MergedSlotWithinOneDay ==
    (pc = "returned" /\ input.mergeSlots) =>
        \A i \in 1..Len(result.slots) :
            \E date \in RangeDates :
                /\ WindowStart(date) <= result.slots[i].start
                /\ result.slots[i].end <= WindowEnd(date)

\* The window 0-23: the last slice of Sunday ends at 23:00, the first of
\* Monday starts at 0:00, both days were merged into one slot each.
C20_Witness ==
    /\ pc = "returned"
    /\ input.mergeSlots
    /\ input.workingHoursStart = 0 /\ input.workingHoursEnd = 23
    /\ input.slotDurationMinutes = 60
    /\ allEvents = << >>
    /\ input.excludedDays = {}
    /\ Len(availableSlots) = 69
    /\ Len(result.slots) = 3
    /\ result.slots[1].end = JSTInstant(DaySun, 23, 0)
    /\ result.slots[2].start = JSTInstant(DayMon, 0, 0)

(***************************************************************************)
(* The time range of the fetch against the working-hours windows.          *)
(***************************************************************************)
DayNext == AddDays(DayD, 1)

\* Events early in the morning and late in the evening of UTC+9.
EarlyEvent == Timed(SMeeting, AtJST(DayD, 1, 0), AtJST(DayD, 2, 0))
LateEvent == Timed(SMeeting, AtJST(DayNext, 22, 0), AtJST(DayNext, 23, 0))
NoonEvent == Timed(SMeeting, AtJST(DayD, 12, 0), AtJST(DayD, 13, 0))

\* Windows from hour 0 and to hour 23, over one and two days; one request
\* the schema rejects and one whose only day is excluded.
WindowRequests ==
    WithCalendarIds(
        Requests({<<DayD, DayD>>, <<DayD, DayNext>>},
                 {<<0, 23>>, <<0, 6>>, <<9, 18>>, <<8, 23>>, <<0, 24>>},
                 {60}, {<<0, 0>>}, {TRUE}, {TRUE}, {{}})
        \cup Requests({<<DayD, DayD>>}, {<<0, 23>>}, {60}, {<<0, 0>>},
                      {TRUE}, {TRUE}, {{2}}),
        {NotGiven, Given(<<"primary", "work">>)})

WindowFeeds ==
    { [primary |-> [fails |-> FALSE, items |-> evs],
       work |-> [fails |-> f, items |-> <<NoonEvent>>]] :
      evs \in {<<EarlyEvent>>, <<LateEvent>>, <<EarlyEvent, LateEvent>>},
      f \in BOOLEAN }

InitWindow == InitProcedure(WindowRequests, WindowFeeds, BOOLEAN)
SpecWindow == InitWindow /\ [][NextProcedure]_vars

\* The events of the calendars whose fetch did not throw.
FeedItems ==
    UNION { { calendarFeed[c].items[i] : i \in 1..Len(calendarFeed[c].items) } :
            c \in { id \in DOMAIN calendarFeed :
                       /\ ~calendarFeed[id].fails
                       /\ \E k \in 1..Len(CalendarIdsOf(input)) :
                              CalendarIdsOf(input)[k] = id } }

\* C21: once the fetch has run, [timeMin, timeMax] contains the window
\* [dayStart, dayEnd) of every date of the range, and every event of a
\* fetched calendar that overlaps such a window is in allEvents.
C21_FetchRangeCoversWindows ==
    pc = "loop" =>
        \A date \in RangeDates :
            /\ timeMinUTC <= WindowStart(date)
            /\ WindowEnd(date) <= timeMaxUTC
            /\ \A e \in FeedItems :
                   (/\ parseEventTime(e.start) < WindowEnd(date)
                    /\ parseEventTime(e.end) > WindowStart(date))
                   => \E i \in 1..Len(allEvents) : allEvents[i] = e

(***************************************************************************)
(* C22: slots of one day with mergeSlots.                                  *)
(***************************************************************************)
\* C22: with mergeSlots no two slots of the same day touch: no slot ends at
\* the instant another slot of that day starts.
C22_MergedSlotsDoNotTouch ==
    input.mergeSlots =>
        \A i, j \in 1..Len(availableSlots) :
            JSTDateOf(availableSlots[i].start) = JSTDateOf(availableSlots[j].start)
            => availableSlots[i].end # availableSlots[j].start

(***************************************************************************)
(* C23: calculateAvailableSlots against the day loop of getAvailableSlots. *)
(***************************************************************************)
\* The getAvailableSlots request with mergeSlots true and both buffers equal
\* to bufferMinutes of the calculateAvailableSlots call.
WholeGapRequest(inp) == [LoopRequest(inp) EXCEPT !.mergeSlots = TRUE]

\* C23: with mergeSlots, what calculateAvailableSlots returns (slices, then
\* merged) is the slot list the whole-gap emission of getAvailableSlots
\* computes from the same events, window, duration and buffers.
C23_SliceThenMergeIsWholeGaps ==
    (pc = "returned" /\ input.mergeSlots) =>
        result.slots = ComputeSlots(allEvents, WholeGapRequest(input))

(***************************************************************************)
(* The googleCalendar router (src/unnamed/part_004) over the module-level  *)
(* OAuth2 client of src/unnamed/part_003: requests of several users whose  *)
(* handlers interleave at their awaits.  A handler runs without            *)
(* interruption from one await to the next.  A list call takes the         *)
(* credentials the shared client holds at the moment of the call.          *)
(***************************************************************************)
MaxRequests == 2      \* number of concurrent requests

\* ctx.user of each request: every request comes from another user.
UserOf(r) == <<"alice", "bob", "carol">>[r]

RequestIds == 1..MaxRequests

\* oauth2Client.setCredentials({access_token, refresh_token, expiry_date})
SetCredentials(user) == user

\* The credentials a list call is sent with: those of the shared client.
CredentialsOfCall(user, shared) == shared

\* One calendar.events.list / calendar.calendarList.list call.
ApiCall(r, method, calendarId, credentials) ==
    [request |-> r, user |-> UserOf(r), method |-> method,
     calendarId |-> calendarId, credentials |-> credentials]

\* getGoogleTokenByUserId found no row: throw 'Google Calendar not connected'.
TokenMissing(r) ==
    /\ handlers[r].at = "start"
    /\ ~handlers[r].hasToken
    /\ handlers' = [handlers EXCEPT ![r].at = "thrown"]
    /\ UNCHANGED <<oauthCredentials, apiCalls>>
    /\ UNCHANGED <<procedureVars, fetchVars, tableVars, sessionVars>>

\* getCalendarList after the token was read: createCalendarClient, then the
\* calendarList.list call, up to its await.
CalendarListCall(r) ==
    /\ handlers[r].at = "start"
    /\ handlers[r].hasToken
    /\ handlers[r].procedure = "getCalendarList"
    /\ oauthCredentials' = SetCredentials(UserOf(r))
    /\ apiCalls' = Append(apiCalls,
                          ApiCall(r, "calendarList.list", "",
                                  CredentialsOfCall(UserOf(r), oauthCredentials')))
    /\ handlers' = [handlers EXCEPT ![r].at = "listing"]
    /\ UNCHANGED <<procedureVars, fetchVars, tableVars, sessionVars>>

\* getAvailableSlots after the token was read: getCalendarEvents creates the
\* client and enters the loop over calendarIds, up to the first await.
FirstEventsCall(r) ==
    /\ handlers[r].at = "start"
    /\ handlers[r].hasToken
    /\ handlers[r].procedure = "getAvailableSlots"
    /\ oauthCredentials' = SetCredentials(UserOf(r))
    /\ apiCalls' = Append(apiCalls,
                          ApiCall(r, "events.list", Head(handlers[r].calendarIds),
                                  CredentialsOfCall(UserOf(r), oauthCredentials')))
    /\ handlers' = [handlers EXCEPT ![r].at = "listing",
                                    ![r].calendarIds = Tail(@)]
    /\ UNCHANGED <<procedureVars, fetchVars, tableVars, sessionVars>>

\* An events.list call is answered (or fails and is caught) and the loop
\* goes on to the next calendar id, up to the await of its call.
NextEventsCall(r) ==
    /\ handlers[r].at = "listing"
    /\ handlers[r].procedure = "getAvailableSlots"
    /\ handlers[r].calendarIds # << >>
    /\ apiCalls' = Append(apiCalls,
                          ApiCall(r, "events.list", Head(handlers[r].calendarIds),
                                  CredentialsOfCall(UserOf(r), oauthCredentials)))
    /\ handlers' = [handlers EXCEPT ![r].calendarIds = Tail(@)]
    /\ UNCHANGED oauthCredentials
    /\ UNCHANGED <<procedureVars, fetchVars, tableVars, sessionVars>>

\* The last list call is answered and the handler returns.
ListReturns(r) ==
    /\ handlers[r].at = "listing"
    /\ handlers[r].calendarIds = << >>
    /\ handlers' = [handlers EXCEPT ![r].at = "returned"]
    /\ UNCHANGED <<oauthCredentials, apiCalls>>
    /\ UNCHANGED <<procedureVars, fetchVars, tableVars, sessionVars>>

NextClient ==
    \E r \in RequestIds :
        \/ TokenMissing(r) \/ CalendarListCall(r) \/ FirstEventsCall(r)
        \/ NextEventsCall(r) \/ ListReturns(r)

\* calendarIds of a request: input.calendarIds || ['primary'].
ClientCalendarIds == {<<"primary">>, <<"primary", "work">>}

\* Requests about to start, each of another user.
InitClient ==
    /\ handlers \in [RequestIds ->
                        [procedure : {"getCalendarList", "getAvailableSlots"},
                         at : {"start"}, hasToken : BOOLEAN,
                         calendarIds : ClientCalendarIds \cup {<< >>}]]
    /\ \A r \in RequestIds :
          handlers[r].procedure = "getCalendarList" <=> handlers[r].calendarIds = << >>
    /\ oauthCredentials = "none"
    /\ apiCalls = << >>
    /\ HandlerIdle
    /\ TableIdle
    /\ SessionIdle

SpecClient == InitClient /\ [][NextClient]_vars

\* C24: every events.list and calendarList.list call is sent with the
\* credentials of the user whose request issued it.
C24_CallsUseIssuersCredentials ==
    \A i \in 1..Len(apiCalls) : apiCalls[i].credentials = apiCalls[i].user

(***************************************************************************)
(* The googleTokens table (src/unnamed/part_010) and its three operations  *)
(* (src/server/db.ts).                                                     *)
(***************************************************************************)
MaxInserts == 4       \* number of INSERTs the table goes through

UserIds == {1, 2}
AccessTokens == {"ya29.a", "ya29.b"}

\* The only key of the table: PRIMARY KEY(id).
DuplicateKey(rows, row) == \E i \in 1..Len(rows) : rows[i].id = row.id

\* INSERT ... ON DUPLICATE KEY UPDATE accessToken = ..., of a row whose id
\* was taken from AUTO_INCREMENT.
InsertOnDuplicateKeyUpdate(rows, row) ==
    IF DuplicateKey(rows, row)
    THEN [i \in 1..Len(rows) |->
            IF rows[i].id = row.id
            THEN [rows[i] EXCEPT !.accessToken = row.accessToken]
            ELSE rows[i]]
    ELSE Append(rows, row)

\* The rows WHERE userId = u.
RowsOf(rows, u) == SelectSeq(rows, LAMBDA row : row.userId = u)

\* SELECT ... WHERE userId = u LIMIT 1 without ORDER BY: any one of the
\* matching rows; undefined when there is none.
SelectLimitOne(rows, u) ==
    IF RowsOf(rows, u) = << >> THEN {"undefined"}
    ELSE { RowsOf(rows, u)[i].accessToken : i \in 1..Len(RowsOf(rows, u)) }

\* upsertGoogleToken({userId, accessToken, ...}): the token carries no id.
upsertGoogleToken(u, t) ==
    /\ nextId <= MaxInserts
    /\ googleTokens' = InsertOnDuplicateKeyUpdate(googleTokens,
                            [id |-> nextId, userId |-> u, accessToken |-> t])
    /\ nextId' = nextId + 1
    /\ lastUpserted' = [lastUpserted EXCEPT ![u] = t]
    /\ UNCHANGED selected
    /\ UNCHANGED <<procedureVars, fetchVars, clientVars, sessionVars>>

\* deleteGoogleTokenByUserId(userId)
deleteGoogleTokenByUserId(u) ==
    /\ googleTokens' = SelectSeq(googleTokens, LAMBDA row : row.userId # u)
    /\ lastUpserted' = [lastUpserted EXCEPT ![u] = "undefined"]
    /\ UNCHANGED <<nextId, selected>>
    /\ UNCHANGED <<procedureVars, fetchVars, clientVars, sessionVars>>

\* getGoogleTokenByUserId(userId)
getGoogleTokenByUserId(u) ==
    /\ \E t \in SelectLimitOne(googleTokens, u) :
          selected' = [userId |-> u, accessToken |-> t]
    /\ UNCHANGED <<googleTokens, nextId, lastUpserted>>
    /\ UNCHANGED <<procedureVars, fetchVars, clientVars, sessionVars>>

NextTable ==
    \E u \in UserIds :
        \/ \E t \in AccessTokens : upsertGoogleToken(u, t)
        \/ deleteGoogleTokenByUserId(u)
        \/ getGoogleTokenByUserId(u)

\* The table after the migration: no rows.
InitTable ==
    /\ googleTokens = << >>
    /\ nextId = 1
    /\ lastUpserted = [u \in UserIds |-> "undefined"]
    /\ selected = << >>
    /\ HandlerIdle
    /\ ClientIdle
    /\ SessionIdle

SpecTable == InitTable /\ [][NextTable]_vars

\* C25: the table holds at most one row per userId, and what
\* getGoogleTokenByUserId(u) can return is the token of the latest upsert
\* for u, or nothing after a delete.
C25_OneRowPerUserLatestToken ==
    \A u \in UserIds :
        /\ Len(RowsOf(googleTokens, u)) <= 1
        /\ SelectLimitOne(googleTokens, u) = {lastUpserted[u]}

(***************************************************************************)
(* The cookie-based API (src/api/index.ts): the OAuth callback, disconnect *)
(* and the queries, as one browser session sees them.  A request carries   *)
(* the cookie the browser holds when it is sent; the browser applies the   *)
(* Set-Cookie of a response when the response arrives.                     *)
(***************************************************************************)
MaxInFlight == 2      \* requests the browser has outstanding at once

ConnectedRedirect == "/?google_connected=true"

\* What oauth2Client.getToken(code) gives: it throws, or it resolves to
\* tokens of which some fields are present.
Exchange(throws, access, id, refresh, expiry) ==
    [throws |-> throws, access_token |-> access, id_token |-> id,
     refresh_token |-> refresh, expiry_date |-> expiry]

Exchanges ==
    { Exchange(TRUE, FALSE, FALSE, FALSE, FALSE),
      Exchange(FALSE, TRUE, TRUE, TRUE, TRUE),
      Exchange(FALSE, TRUE, TRUE, FALSE, TRUE),
      Exchange(FALSE, TRUE, TRUE, TRUE, FALSE),
      Exchange(FALSE, TRUE, FALSE, TRUE, TRUE),
      Exchange(FALSE, FALSE, TRUE, TRUE, TRUE) }

NoExchange == Exchange(FALSE, FALSE, FALSE, FALSE, FALSE)

\* A response: status, Location, what Set-Cookie does to the token cookie
\* ("set", "clear" or "none"), and the body.
Response(status, redirect, setCookie, body) ==
    [status |-> status, redirect |-> redirect, setCookie |-> setCookie,
     body |-> body]

\* app.get("/api/google/callback")
Callback(req) ==
    IF ~req.code
    THEN Response(400, "", "none", "Authorization code is missing")
    ELSE IF req.exchange.throws
    THEN Response(500, "", "none", "Authentication failed")
    ELSE IF ~req.exchange.access_token \/ ~req.exchange.id_token
    THEN Response(400, "", "none", "Failed to get tokens")
    ELSE IF /\ req.exchange.access_token
            /\ req.exchange.refresh_token
            /\ req.exchange.expiry_date
    THEN Response(303, ConnectedRedirect, "set", "")
    ELSE Response(303, ConnectedRedirect, "none", "")

\* googleTokenCookie.getTokens(req): null without the cookie; the cookie the
\* server signed verifies and carries the three fields.
getTokens(req) == req.cookie # "none"

\* Mutant: clearTokens leaves the cookie alone.
clearTokens_Keep == "none"

\* googleTokenCookie.clearTokens: res.clearCookie(name, {..., maxAge: -1})
clearTokens == "clear"

\* calendar.getConnectionStatus
GetConnectionStatus(req) ==
    Response(200, "", "none", [connected |-> getTokens(req), google |-> FALSE])

\* calendar.disconnect
Disconnect(req) ==
    Response(200, "", clearTokens, [success |-> TRUE, google |-> FALSE])

\* calendar.getCalendarList: without tokens it throws before any Google call.
GetCalendarList(req) ==
    IF ~getTokens(req)
    THEN Response(500, "", "none",
                  [error |-> "Google Calendar not connected", google |-> FALSE])
    ELSE Response(200, "", "none", [error |-> "", google |-> TRUE])

\* calendar.getAvailableSlots: the input is validated first, then as above.
GetAvailableSlots(req) ==
    IF ~req.valid
    THEN Response(400, "", "none", [error |-> "BAD_REQUEST", google |-> FALSE])
    ELSE IF ~getTokens(req)
    THEN Response(500, "", "none",
                  [error |-> "Google Calendar not connected", google |-> FALSE])
    ELSE Response(200, "", "none", [error |-> "", google |-> TRUE])

Handle(req) ==
    CASE req.kind = "callback" -> Callback(req)
      [] req.kind = "disconnect" -> Disconnect(req)
      [] req.kind = "getConnectionStatus" -> GetConnectionStatus(req)
      [] req.kind = "getCalendarList" -> GetCalendarList(req)
      [] req.kind = "getAvailableSlots" -> GetAvailableSlots(req)

\* The browser's cookie after a response.
CookieAfter(jar, setCookie) ==
    CASE setCookie = "set" -> "token"
      [] setCookie = "clear" -> "none"
      [] setCookie = "none" -> jar

\* The last the browser has seen complete of: a disconnect call, a callback
\* that saved the tokens.
EraAfter(era, req, response) ==
    IF req.kind = "disconnect" THEN "disconnected"
    ELSE IF req.kind = "callback" /\ response.setCookie = "set" THEN "connected"
    ELSE era

\* A request as the browser sends it now.
Request(kind, code, exchange, valid) ==
    [kind |-> kind, cookie |-> cookieJar, era |-> sessionEra,
     code |-> code, exchange |-> exchange, valid |-> valid]

\* The browser may send req: it is not already outstanding and there is room.
CanSend(req) == Cardinality(inFlight) < MaxInFlight /\ req \notin inFlight

\* Google redirects the browser to the callback, with or without a code.
SendCallback ==
    \E code \in BOOLEAN, exchange \in Exchanges :
        LET req == Request("callback", code,
                           IF code THEN exchange ELSE NoExchange, TRUE)
        IN  /\ CanSend(req)
            /\ inFlight' = inFlight \cup {req}
            /\ UNCHANGED <<cookieJar, lastResponse, sessionEra>>
            /\ UNCHANGED <<procedureVars, fetchVars, clientVars, tableVars>>

SendDisconnect ==
    LET req == Request("disconnect", FALSE, NoExchange, TRUE)
    IN  /\ CanSend(req)
        /\ inFlight' = inFlight \cup {req}
        /\ UNCHANGED <<cookieJar, lastResponse, sessionEra>>
        /\ UNCHANGED <<procedureVars, fetchVars, clientVars, tableVars>>

\* One of the three queries; getAvailableSlots with an input the schema
\* accepts or rejects.
SendQuery ==
    \E kind \in {"getConnectionStatus", "getCalendarList", "getAvailableSlots"},
       valid \in BOOLEAN :
        LET req == Request(kind, FALSE, NoExchange,
                           kind # "getAvailableSlots" \/ valid)
        IN  /\ CanSend(req)
            /\ inFlight' = inFlight \cup {req}
            /\ UNCHANGED <<cookieJar, lastResponse, sessionEra>>
            /\ UNCHANGED <<procedureVars, fetchVars, clientVars, tableVars>>

\* The server answers one of the outstanding requests and the browser
\* receives the response.
Receive ==
    \E req \in inFlight :
        /\ inFlight' = inFlight \ {req}
        /\ lastResponse' = [kind |-> req.kind, era |-> req.era,
                            valid |-> req.valid, response |-> Handle(req)]
        /\ cookieJar' = CookieAfter(cookieJar, Handle(req).setCookie)
        /\ sessionEra' = EraAfter(sessionEra, req, Handle(req))
        /\ UNCHANGED <<procedureVars, fetchVars, clientVars, tableVars>>

NextSession == SendCallback \/ SendDisconnect \/ SendQuery \/ Receive

\* A browser without the cookie.
InitSession ==
    /\ cookieJar = "none"
    /\ inFlight = {}
    /\ lastResponse = NoResult
    /\ sessionEra = "none"
    /\ HandlerIdle
    /\ ClientIdle
    /\ TableIdle

SpecSession == InitSession /\ [][NextSession]_vars

\* C26: a callback response that redirects to /?google_connected=true has
\* set the google_calendar_token cookie.
C26_ConnectedRedirectOnlyWithCookie ==
    (/\ lastResponse.kind = "callback"
     /\ lastResponse.response.redirect = ConnectedRedirect)
    => lastResponse.response.setCookie = "set"

\* C30: a query sent after a disconnect call completed and before a later
\* callback saved tokens is answered connected = false, and getCalendarList
\* and getAvailableSlots (with an input the schema accepts) fail with
\* 'Google Calendar not connected' without a call to Google; a
\* getConnectionStatus sent after a callback saved tokens and before a later
\* disconnect is answered connected = true.
C30_StatusFollowsLastCookieChange ==
    LET kind == lastResponse.kind
        body == lastResponse.response.body
    IN  /\ (kind = "getConnectionStatus" /\ lastResponse.era = "disconnected")
           => body.connected = FALSE
        /\ (/\ kind \in {"getCalendarList", "getAvailableSlots"}
            /\ lastResponse.valid
            /\ lastResponse.era = "disconnected")
           => (body.error = "Google Calendar not connected" /\ ~body.google)
        /\ (kind = "getConnectionStatus" /\ lastResponse.era = "connected")
           => body.connected = TRUE

\* The browser holds the cookie again after a disconnect (a later callback
\* saved tokens), and a getAvailableSlots sent in between, after the
\* disconnect, has just been refused.
C30_Witness ==
    /\ lastResponse.kind = "getAvailableSlots"
    /\ lastResponse.era = "disconnected"
    /\ lastResponse.response.body.error = "Google Calendar not connected"
    /\ sessionEra = "connected"
    /\ cookieJar = "token"

\* A getConnectionStatus sent after a callback saved tokens was answered
\* connected = true while a disconnect is outstanding.
C30_WitnessConnected ==
    /\ lastResponse.kind = "getConnectionStatus"
    /\ lastResponse.era = "connected"
    /\ lastResponse.response.body.connected
    /\ \E req \in inFlight : req.kind = "disconnect"

(***************************************************************************)
(* C28: the order of the returned slots over the whole range.              *)
(***************************************************************************)
\* Events of Monday and Tuesday: an overlapping pair and an event nested in
\* one of them, an event over the midnight between the two days, an event
\* of zero length, and one on Tuesday afternoon.  A list may hold the same
\* event twice.
AscendingPool ==
    { Timed(SMeeting, AtJST(DayMon, 10, 0), AtJST(DayMon, 12, 0)),
      Timed(SMeeting, AtJST(DayMon, 11, 0), AtJST(DayMon, 13, 30)),
      Timed(SMeeting, AtJST(DayMon, 10, 30), AtJST(DayMon, 11, 0)),
      Timed(SMeeting, AtJST(DayMon, 21, 0), AtJST(DayD, 10, 15)),
      Timed(SMeeting, AtJST(DayD, 12, 0), AtJST(DayD, 12, 0)),
      Timed(SMeeting, AtJST(DayD, 14, 0), AtJST(DayD, 15, 0)) }

AscendingRequests ==
    Requests({<<DayMon, DayD>>, <<DaySun, DayD>>}, {<<9, 18>>, <<0, 23>>},
             {30, 60}, {<<0, 0>>, <<30, 15>>}, BOOLEAN, {TRUE}, {{}, {0}})

InitAscending == InitWith(AscendingRequests, AscendingPool)
SpecAscending == InitAscending /\ [][Next]_vars

\* C28: the slot list is strictly ascending by start and no two slots
\* overlap: each slot ends no later than every later slot starts.
C28_SlotsAscendingDisjoint ==
    \A i, j \in 1..Len(availableSlots) :
        i < j => /\ availableSlots[i].start < availableSlots[j].start
                 /\ availableSlots[i].end <= availableSlots[j].start

\* The loop has ended over two days with a duplicated event on the first
\* and slots on both days.
C28_Witness ==
    /\ pc = "done"
    /\ Len(allEvents) = 2
    /\ allEvents[1] = allEvents[2]
    /\ JSTDateOf(parseEventTime(allEvents[1].start)) = DayMon
    /\ \E i, j \in 1..Len(availableSlots) :
          /\ JSTDateOf(availableSlots[i].start) = DayMon
          /\ JSTDateOf(availableSlots[j].start) = DayD

(***************************************************************************)
(* C29: every selected calendar fails.                                     *)
(***************************************************************************)
\* events.list was called and threw for every selected calendar.
EveryFetchFailed ==
    /\ listCalls # << >>
    /\ \A i \in 1..Len(listCalls) : calendarFeed[listCalls[i]].fails

\* C29: when the fetch fails for every selected calendar the procedure
\* still returns, and its slots and text are those of an empty event list.
C29_AllFailuresAsEmptyCalendar ==
    (pc = "returned" /\ EveryFetchFailed) =>
        /\ result.kind = "ok"
        /\ result.slots = ComputeSlots(<< >>, input)
        /\ result.formattedText = FormatSlots(ComputeSlots(<< >>, input))
        /\ result.totalSlots = Len(ComputeSlots(<< >>, input))

\* Three different calendars were asked, all three failed, and the procedure
\* returned the slots of a free day.
C29_Witness ==
    /\ pc = "returned"
    /\ EveryFetchFailed
    /\ Len(listCalls) = 3
    /\ listCalls[1] # listCalls[2]
    /\ listCalls[2] # listCalls[3]
    /\ listCalls[1] # listCalls[3]
    /\ result.kind = "ok"
    /\ result.slots # << >>

(***************************************************************************)
(* C27: startDate and endDate are any two strings.  A string is the        *)
(* sequence of its characters.                                             *)
(***************************************************************************)
DigitValue(c) ==
    CASE c = "0" -> 0 [] c = "1" -> 1 [] c = "2" -> 2 [] c = "3" -> 3
      [] c = "4" -> 4 [] c = "5" -> 5 [] c = "6" -> 6 [] c = "7" -> 7
      [] c = "8" -> 8 [] c = "9" -> 9

IsDigit(c) == c \in {"0", "1", "2", "3", "4", "5", "6", "7", "8", "9"}

RECURSIVE DecimalValue(_)
DecimalValue(chars) ==
    IF chars = << >> THEN 0
    ELSE DecimalValue(SubSeq(chars, 1, Len(chars) - 1)) * 10
         + DigitValue(chars[Len(chars)])

\* Number(text) for text made of digits, letters other than e and x, and
\* nothing else: 0 for the empty text, the decimal value of digits, NaN
\* otherwise.
Number(chars) ==
    IF \A i \in 1..Len(chars) : IsDigit(chars[i]) THEN DecimalValue(chars)
    ELSE NaN

\* text.split("-")
RECURSIVE Split(_)
Split(chars) ==
    IF \A i \in 1..Len(chars) : chars[i] # "-" THEN <<chars>>
    ELSE LET at == CHOOSE i \in 1..Len(chars) :
                       /\ chars[i] = "-"
                       /\ \A j \in 1..(i - 1) : chars[j] # "-"
         IN  <<SubSeq(chars, 1, at - 1)>>
             \o Split(SubSeq(chars, at + 1, Len(chars)))

\* const [year, month, day] = text.split("-").map(Number): a part that is
\* missing is undefined, which every use turns into NaN.
ParseDate(chars) ==
    LET parts == Split(chars)
        part(i) == IF i <= Len(parts) THEN Number(parts[i]) ELSE NaN
    IN  <<part(1), part(2), part(3)>>

\* "2025-11-03", "2025-11-04", "2025-11", "2025-11-xx", "soon" and "".
DateStrings ==
    { <<"2","0","2","5","-","1","1","-","0","3">>,
      <<"2","0","2","5","-","1","1","-","0","4">>,
      <<"2","0","2","5","-","1","1">>,
      <<"2","0","2","5","-","1","1","-","x","x">>,
      <<"s","o","o","n">>,
      << >> }

Parses(chars) == \A i \in 1..3 : ~IsNaN(ParseDate(chars)[i])

\* Every pair of the strings whose startDate does not parse, and the pairs
\* of which both parse.  In each startDate that does not parse the day is
\* NaN, so the cursor of the loop stays where it is.  (With a day that is a
\* number and a year, a month or an endDate that is NaN the cursor walks on
\* without end.)
UnparsedRanges ==
    { <<ParseDate(st), ParseDate(en)>> :
        st \in { c \in DateStrings : ~Parses(c) }, en \in DateStrings }
    \cup { <<ParseDate(st), ParseDate(en)>> :
             st \in { c \in DateStrings : Parses(c) },
             en \in { c \in DateStrings : Parses(c) } }

UnparsedRequests ==
    Requests(UnparsedRanges, {<<9, 18>>}, {60}, {<<0, 0>>}, BOOLEAN, {TRUE},
             {{}, {1}})

UnparsedPool == { Timed(SMeeting, AtJST(DayD, 10, 0), AtJST(DayD, 11, 0)) }

\* The day loop about to start.  A date that does not parse makes
\* toISOString throw in every events.list call, so nothing was fetched.
InitUnparsed ==
    /\ InitWith(UnparsedRequests, UnparsedPool)
    /\ (\E i \in 1..3 : IsNaN(input.startDate[i]) \/ IsNaN(input.endDate[i]))
       => allEvents = << >>

\* The loop runs without waiting for anything: a step that can be taken is
\* taken.
SpecUnparsed == InitUnparsed /\ [][Next]_vars /\ WF_vars(Next)

\* C27: the day loop terminates.
C27_DayLoopTerminates == <>(pc = "done")

====
